---- MODULE Spec2Model ----
(***************************************************************************)
(* A model of the NMEA2000 router: the fast-packet reassembler             *)
(* (stream_reader.rs), the time monitor (time_monitor.rs), the vessel      *)
(* monitor's noise filters (vessel_monitor.rs), the vessel status handler  *)
(* with its transactional store call (vessel_status_handler.rs, db.rs) and *)
(* the main loop's persistence gates (main.rs).                            *)
(*                                                                         *)
(* Each component has its own specification (SpecReader, SpecRoundTrip,    *)
(* SpecTime, ...) over the shared variables; a specification leaves the    *)
(* variables of the other components unchanged.                            *)
(***************************************************************************)
EXTENDS Integers, Sequences, FiniteSets, TLC

VARIABLES
    fast_packet_buffers,  \* N2kStreamReader.fast_packet_buffers: set of [key, buf]
    sender,               \* a device splitting one payload into fast-packet frames
    rd_last,              \* the last frame given to process_frame and its result
    time_monitor,         \* TimeMonitor
    wall_ms,              \* the wall clock (SystemTime::now), ms since the Unix epoch
    tm_last,              \* the last message given to the time monitor and what it did
    vessel_monitor,       \* VesselMonitor: positions and speeds
    now,                  \* the monotonic clock (Instant::now), in seconds
    vm_last,              \* the last message given to the vessel monitor
    status_handler,       \* VesselStatusHandler.state
    store,                \* the rows the store has committed
    hs_last,              \* the last status given to the handler and what it did
    env_monitor,          \* EnvironmentalMonitor
    main,                 \* main's store handle and the locals of its loop
    mn_last,              \* the last iteration of main's loop and what it did
    gs_last,              \* the last call of generate_status and what it returned
    one_trip,             \* the Trip that Trip::update is applied to
    trip_last,            \* the last update of it: its arguments, the trip before, the sums so far
    env_status_handler,   \* the EnvironmentalStatusState of the environmental status handler
    eh_last,              \* the last call of handle_environment_status: its inputs, the state before, the metrics handed to the store
    cadence,              \* the statuses handed to the handler at a fixed period: their kind and number
    can,                  \* the CAN socket of main's loop and where the loop stands
    can_last,             \* the last read or open of the loop and its outcome
    reconnect,            \* the call of reconnect_with_retry in progress or returned
    health,               \* the loop's store handle (held or not) and the HealthCheckManager
    reachable,            \* whether the store accepts connections
    hc_last,              \* the last call of check_and_reconnect and what it did
    source_filter,        \* SourceFilterConfig.pgn_source_map after validation
    flt_last,             \* the last frame or identifier given to the filter and the verdict
    loaded_config,        \* the configuration: vessel-status intervals and environmental periods, in seconds
    cfg_last,             \* the configuration as read from the file, and whether it was validated
    speed_seen,           \* the max_speed_kn of the statuses handed over since the previous persisted row
    em_last               \* the last message ingested by the environmental monitor and the instant

readerVars == <<fast_packet_buffers, sender, rd_last>>
timeVars == <<time_monitor, wall_ms, tm_last>>

vesselVars == <<vessel_monitor, now, vm_last>>

handlerVars == <<status_handler, store, hs_last>>

mainVars == <<env_monitor, main, mn_last>>

statusVars == <<gs_last>>

tripVars == <<one_trip, trip_last>>

envHandlerVars == <<env_status_handler, eh_last>>

cadenceVars == <<cadence>>

canVars == <<can, can_last>>

reconnectVars == <<reconnect>>

healthVars == <<health, reachable, hc_last>>

filterVars == <<source_filter, flt_last>>

configVars == <<loaded_config, cfg_last>>

speedVars == <<speed_seen>>

envBufferVars == <<em_last>>

vars == <<readerVars, timeVars, vesselVars, handlerVars, mainVars, statusVars, tripVars, envHandlerVars, cadenceVars, canVars, reconnectVars, healthVars, filterVars, configVars, speedVars, envBufferVars>>

\* What an action of one component leaves alone.
notReader == <<timeVars, vesselVars, handlerVars, mainVars, statusVars, tripVars, envHandlerVars, cadenceVars, canVars, reconnectVars, healthVars, filterVars, configVars, speedVars, envBufferVars>>
notTime == <<readerVars, vesselVars, handlerVars, mainVars, statusVars, tripVars, envHandlerVars, cadenceVars, canVars, reconnectVars, healthVars, filterVars, configVars, speedVars, envBufferVars>>
notVessel == <<readerVars, timeVars, handlerVars, mainVars, statusVars, tripVars, envHandlerVars, cadenceVars, canVars, reconnectVars, healthVars, filterVars, configVars, speedVars, envBufferVars>>

\* Option<T>
None == [none |-> TRUE]
Some(x) == [some |-> x]

Min(a, b) == IF a < b THEN a ELSE b
Max(a, b) == IF a > b THEN a ELSE b
Abs(x) == IF x < 0 THEN -x ELSE x

\* ceiling of a / b for a >= 0, b > 0 (usize::div_ceil)
div_ceil(a, b) == (a + b - 1) \div b

RECURSIVE Concat(_)
Concat(ss) == IF ss = <<>> THEN <<>> ELSE Head(ss) \o Concat(Tail(ss))

\* Vec::truncate: keep the first n elements, no-op when n >= len
truncate(s, n) == IF n >= Len(s) THEN s ELSE SubSeq(s, 1, n)

(***************************************************************************)
(* Identifier: the 29-bit CAN identifier of a frame.                       *)
(***************************************************************************)
\* 29-bit identifier laid out as priority(3) | reserved(1) | data page(1) |
\* PDU format(8) | PDU specific(8) | source(8)
MakeCanId(prio, dp, pf, ps, src) ==
    prio * 67108864 + dp * 16777216 + pf * 65536 + ps * 256 + src

Identifier_source(can_id) == can_id % 256

Identifier_pgn(can_id) ==
    LET ps == (can_id \div 256) % 256
        pf == (can_id \div 65536) % 256
        dp == (can_id \div 16777216) % 2
    IN  IF pf >= 240 THEN dp * 65536 + pf * 256 + ps
                     ELSE dp * 65536 + pf * 256

\* The identifiers on the modelled bus: GNSS position (129029) from two
\* sources and the single-frame position rapid update (129025).
GnssFrom22   == MakeCanId(3, 1, 248, 5, 22)
GnssFrom35   == MakeCanId(3, 1, 248, 5, 35)
PosFrom22    == MakeCanId(2, 1, 248, 1, 22)

CanIds == {GnssFrom22, GnssFrom35, PosFrom22}

KeyOf(can_id) == <<Identifier_pgn(can_id), Identifier_source(can_id)>>

(***************************************************************************)
(* FastPacket: the 8 data bytes of one frame of a fast-packet sequence.    *)
(***************************************************************************)
FastPacket_is_first(data) == (data[1] % 32) = 0

FastPacket_total_len(data) ==
    IF FastPacket_is_first(data) THEN Some(data[2]) ELSE None

FastPacket_data(data) ==
    IF FastPacket_is_first(data) THEN SubSeq(data, 3, 8) ELSE SubSeq(data, 2, 8)

(***************************************************************************)
(* FastPacketBuffer                                                        *)
(***************************************************************************)
FirstFramePayload == 6
NextFramePayload == 7

\* Rounds the number of follow-on frames down instead of up.
expected_frames_of_Floor(total_len) ==
    IF total_len <= FirstFramePayload
    THEN 1
    ELSE 1 + ((total_len - FirstFramePayload) \div NextFramePayload)

expected_frames_of(total_len) ==
    IF total_len <= FirstFramePayload
    THEN 1
    ELSE 1 + div_ceil(total_len - FirstFramePayload, NextFramePayload)

FastPacketBuffer_new(total_len) ==
    [frames |-> <<>>, total_len |-> total_len,
     expected_frames |-> expected_frames_of(total_len)]

add_frame(buffer, frame_data) ==
    [buffer EXCEPT !.frames = Append(@, frame_data)]

is_complete(buffer) == Len(buffer.frames) >= buffer.expected_frames

get_complete_data(buffer) == truncate(Concat(buffer.frames), buffer.total_len)

(***************************************************************************)
(* The buffer map, a HashMap<(pgn, source), FastPacketBuffer>, kept as the *)
(* set of its entries.                                                     *)
(***************************************************************************)
HashMap_contains(map, key) == \E e \in map : e.key = key

HashMap_get(map, key) == (CHOOSE e \in map : e.key = key).buf

HashMap_remove(map, key) == {e \in map : e.key # key}

HashMap_insert(map, key, buf) ==
    HashMap_remove(map, key) \cup {[key |-> key, buf |-> buf]}

(***************************************************************************)
(* N2kStreamReader                                                         *)
(***************************************************************************)
is_fast_packet_pgn(pgn) ==
    pgn \in {126996, 127233, 127237, 127489, 127493, 127505, 128275, 129029,
             129038, 129039, 129540, 129794, 129809, 129810}

N2kFrame(can_id, fast, data) ==
    [pgn |-> Identifier_pgn(can_id), source |-> Identifier_source(can_id),
     is_fast_packet |-> fast, data |-> data]

\* A first frame whose buffer is not complete yet is stored under its key.
store_first_frame_Leaky(bufs, key, buffer) ==
    bufs \cup {[key |-> key, buf |-> buffer]}

store_first_frame(bufs, key, buffer) == HashMap_insert(bufs, key, buffer)

\* A completed follow-on sequence releases its buffer.
evict_completed_Kept(bufs, key) == bufs

evict_completed(bufs, key) == HashMap_remove(bufs, key)

\* The result is the pair of the new buffer map and the returned frame.
process_fast_packet(bufs, can_id, data) ==
    LET key == KeyOf(can_id) IN
    IF FastPacket_is_first(data)
    THEN LET total_len == FastPacket_total_len(data) IN
         IF total_len = None
         THEN [bufs |-> bufs, ret |-> None]
         ELSE LET buffer == add_frame(FastPacketBuffer_new(total_len.some),
                                      FastPacket_data(data)) IN
              IF is_complete(buffer)
              THEN [bufs |-> bufs,
                    ret |-> Some(N2kFrame(can_id, TRUE, get_complete_data(buffer)))]
              ELSE [bufs |-> store_first_frame(bufs, key, buffer),
                    ret |-> None]
    ELSE IF HashMap_contains(bufs, key)
    THEN \* get_mut: the frame is added to the buffer held by the map
         LET buffer == add_frame(HashMap_get(bufs, key), FastPacket_data(data))
             added == HashMap_insert(bufs, key, buffer) IN
         IF is_complete(buffer)
         THEN [bufs |-> evict_completed(added, key),
               ret |-> Some(N2kFrame(can_id, TRUE, get_complete_data(buffer)))]
         ELSE [bufs |-> added, ret |-> None]
    ELSE [bufs |-> bufs, ret |-> None]

process_frame(bufs, can_id, data) ==
    IF is_fast_packet_pgn(Identifier_pgn(can_id)) /\ Len(data) = 8
    THEN process_fast_packet(bufs, can_id, data)
    ELSE [bufs |-> bufs, ret |-> Some(N2kFrame(can_id, FALSE, data))]

(***************************************************************************)
(* The frames put on the bus.                                              *)
(***************************************************************************)
\* The largest number of follow-on frames of a modelled sequence.
MaxFollowOn == 2

Fills == {17, 34}

Repeat(b, n) == [i \in 1..n |-> b]

\* Declared lengths around the frame-count boundaries, up to the longest
\* modelled sequence.
TotalLens ==
    {0, FirstFramePayload, FirstFramePayload + 1,
     FirstFramePayload + NextFramePayload, FirstFramePayload + NextFramePayload + 1,
     FirstFramePayload + NextFramePayload * MaxFollowOn}

FirstFrameOf(tag, total_len, chunk) == <<tag * 32, total_len>> \o chunk
NextFrameOf(tag, counter, chunk) == <<tag * 32 + counter>> \o chunk

\* The (sequence tag, frame counter) pairs of the modelled follow-on frames.
FollowOnTags == {<<0, 1>>, <<0, 2>>, <<1, 1>>}

\* Any frame a device may send: first frames of every declared length,
\* follow-on frames, and a short (non 8-byte) frame.
FramesWith(fills) ==
    {FirstFrameOf(0, n, Repeat(f, FirstFramePayload)) : n \in TotalLens, f \in fills}
    \cup {NextFrameOf(tc[1], tc[2], Repeat(f, NextFramePayload)) :
            tc \in FollowOnTags, f \in fills}
    \cup {<<1, 2, 3>>}

BusFrames == FramesWith(Fills)

\* The sending device: payload byte i is 100 + i, so that every byte of a
\* payload is different from its neighbours and from the padding byte 255
\* that fills the last frame.
SenderId == GnssFrom22
MaxPayloadLen == FirstFramePayload + NextFramePayload * MaxFollowOn

PayloadOf(len) == [i \in 1..len |-> 100 + i]

PadTo(s, n) == s \o Repeat(255, n - Len(s))

RECURSIVE FollowOnFrames(_, _, _)
FollowOnFrames(tag, counter, rest) ==
    IF rest = <<>> THEN <<>>
    ELSE LET n == Min(Len(rest), NextFramePayload) IN
         <<NextFrameOf(tag, counter, PadTo(SubSeq(rest, 1, n), NextFramePayload))>>
         \o FollowOnFrames(tag, counter + 1, SubSeq(rest, n + 1, Len(rest)))

\* One first frame with 6 payload bytes, then follow-on frames of 7.
SplitPayload(tag, payload) ==
    LET n == Min(Len(payload), FirstFramePayload) IN
    <<FirstFrameOf(tag, Len(payload), PadTo(SubSeq(payload, 1, n), FirstFramePayload))>>
    \o FollowOnFrames(tag, 1, SubSeq(payload, n + 1, Len(payload)))

IdleSender == [active |-> FALSE, payload |-> <<>>, sent |-> 0]

RdLast(op, can_id, data, ret) ==
    [op |-> op, can_id |-> can_id, data |-> data, ret |-> ret]

InitReader ==
    /\ fast_packet_buffers = {}
    /\ sender = IdleSender
    /\ rd_last = RdLast("init", 0, <<>>, None)

\* main loop: a frame read from the bus is given to the reader.  While the
\* sender is in the middle of a sequence no other frame carries its key.
FeedFrame(can_id, data) ==
    /\ sender.active => KeyOf(can_id) # KeyOf(SenderId)
    /\ LET r == process_frame(fast_packet_buffers, can_id, data) IN
        /\ fast_packet_buffers' = r.bufs
        /\ rd_last' = RdLast("feed", can_id, data, r.ret)
    /\ UNCHANGED <<sender, notReader>>

SenderStart(len) ==
    /\ ~sender.active
    /\ sender' = [active |-> TRUE, payload |-> PayloadOf(len), sent |-> 0]
    /\ rd_last' = RdLast("start", SenderId, <<>>, None)
    /\ UNCHANGED <<fast_packet_buffers, notReader>>

SenderSend ==
    /\ sender.active
    /\ LET frames == SplitPayload(1, sender.payload)
           data == frames[sender.sent + 1]
           r == process_frame(fast_packet_buffers, SenderId, data) IN
        /\ fast_packet_buffers' = r.bufs
        /\ rd_last' = RdLast("send", SenderId, data, r.ret)
        /\ sender' = [sender EXCEPT !.sent = @ + 1,
                                    !.active = (sender.sent + 1 < Len(frames))]
    /\ UNCHANGED notReader

\* Arbitrary traffic: any frame from any device, in any order.
NextReader ==
    \E can_id \in CanIds, data \in BusFrames : FeedFrame(can_id, data)

\* One device sends payloads split in order; the traffic of the other
\* devices is interleaved with its frames.
NextRoundTrip ==
    \/ \E can_id \in CanIds, data \in FramesWith({17}) : FeedFrame(can_id, data)
    \/ \E len \in 0..MaxPayloadLen : SenderStart(len)
    \/ SenderSend

\* The length of a GNSS position record.
GnssLens == {43}

\* The device at source 22 sends GNSS position records frame by frame while
\* other devices send theirs.
NextGnss ==
    \/ \E can_id \in CanIds, data \in FramesWith({17}) : FeedFrame(can_id, data)
    \/ \E len \in GnssLens : SenderStart(len)
    \/ SenderSend

(***************************************************************************)
(* The time monitor (time_monitor.rs)                                      *)
(*                                                                         *)
(* The wall clock and the times carried by System Time messages are in     *)
(* milliseconds since the Unix epoch; the model's clock stays near the     *)
(* epoch so that every value fits TLC's integers.                          *)
(***************************************************************************)
skew_threshold_default == 500
skew_threshold_min == 100
warning_cooldown_secs == 10

\* N2kDateTime: date in days since 1970-01-01, time in units of 0.0001 s
\* since midnight.
N2kDateTime(date, time) == [date |-> date, time |-> time]

\* (time * 0.0001) as i64: the cast truncates.
to_unix_timestamp(dt) == dt.date * 86400 + (dt.time \div 10000)

\* (time * 0.0001 * 1000.0) as u32, modulo 1000.
milliseconds(dt) == (dt.time \div 10) % 1000

\* UNIX_EPOCH + from_secs(..) + from_millis(..), in ms since the epoch.
to_system_time(dt) == to_unix_timestamp(dt) * 1000 + milliseconds(dt)

TimeMonitor_new(time_skew_threshold_ms) ==
    [last_warning_time |-> None,
     has_time_skew |-> FALSE,
     time_skew_threshold_ms |-> time_skew_threshold_ms,
     last_measured_skew_ms |-> 0,
     is_initialized |-> FALSE]

is_time_synchronized(tm) == ~tm.has_time_skew

is_valid_and_synced_NoInit(tm) == is_time_synchronized(tm)

is_valid_and_synced(tm) == tm.is_initialized /\ is_time_synchronized(tm)

i64_abs_Identity(x) == x

i64_abs(x) == IF x < 0 THEN -x ELSE x

exceeds_threshold_Inclusive(abs_skew, threshold) == abs_skew >= threshold

exceeds_threshold(abs_skew, threshold) == abs_skew > threshold

\* now.duration_since(last_warn): Err when the clock went back, else whole
\* seconds against the cooldown.
should_warn(tm, wall_now) ==
    IF tm.last_warning_time = None THEN TRUE
    ELSE LET last_warn == tm.last_warning_time.some IN
         IF wall_now < last_warn THEN TRUE
         ELSE (wall_now - last_warn) \div 1000 >= warning_cooldown_secs

before_epoch_Never(wall_now) == FALSE

\* now.duration_since(UNIX_EPOCH) is Err.
before_epoch(wall_now) == wall_now < 0

\* The monitor after one System Time message read at wall clock `wall_now`, and
\* whether the warning was printed.
process_system_time(tm, wall_now, nmea_time) ==
    IF before_epoch(wall_now) THEN [tm |-> tm, warned |-> FALSE]
    ELSE
        LET nmea_system_time == to_system_time(nmea_time)
            time_skew_ms == wall_now - nmea_system_time
            abs_skew == i64_abs(time_skew_ms)
            skewed == exceeds_threshold(abs_skew, tm.time_skew_threshold_ms)
            warn == skewed /\ should_warn(tm, wall_now)
        IN [tm |-> [tm EXCEPT
                      !.has_time_skew = skewed,
                      !.last_warning_time = IF warn THEN Some(wall_now) ELSE @,
                      !.is_initialized = TRUE,
                      !.last_measured_skew_ms = time_skew_ms],
            warned |-> warn]

\* Wall clock readings: before the epoch, and two more than a cooldown apart.
WallTimes == {-1000, 1000, 12000}

SkewThresholds == {skew_threshold_min, skew_threshold_default}

\* Times (ms since the epoch) around each wall clock reading: on it, and at
\* and one past each threshold on both sides.
NmeaMillis ==
    {w + d : w \in {1000, 12000},
             d \in {0} \cup {x : x \in UNION {{t, t + 1, -t, -(t + 1)} : t \in SkewThresholds}}}

\* System Time messages: each of those times with and without a fraction of
\* a millisecond, and one a day ahead.
SystemTimeMessages ==
    {N2kDateTime(0, 10 * ms + f) : ms \in NmeaMillis, f \in {0, 7}}
    \cup {N2kDateTime(1, 0)}

TmLast(op, wall_now, msg, before, warned) ==
    [op |-> op, now |-> wall_now, msg |-> msg, before |-> before, warned |-> warned]

InitTimeWith(threshold) ==
    /\ time_monitor = TimeMonitor_new(threshold)
    /\ wall_ms = 1000
    /\ tm_last = TmLast("init", 1000, N2kDateTime(0, 0), TimeMonitor_new(threshold), FALSE)

\* The wall clock runs, or is stepped (also backwards, also before the epoch).
SetWallClock(w) ==
    /\ wall_ms' = w
    /\ tm_last' = [tm_last EXCEPT !.op = "clock"]
    /\ UNCHANGED <<time_monitor, notTime>>

\* TimeMonitor::handle_message with a System Time message.
HandleSystemTime(msg) ==
    LET r == process_system_time(time_monitor, wall_ms, msg) IN
    /\ time_monitor' = r.tm
    /\ tm_last' = TmLast("system_time", wall_ms, msg, time_monitor, r.warned)
    /\ UNCHANGED <<wall_ms, notTime>>

\* TimeMonitor::handle_message with any other message.
HandleOtherMessage ==
    /\ tm_last' = [tm_last EXCEPT !.op = "other"]
    /\ UNCHANGED <<time_monitor, wall_ms, notTime>>

NextTime ==
    \/ \E w \in WallTimes : SetWallClock(w)
    \/ \E msg \in SystemTimeMessages : HandleSystemTime(msg)
    \/ HandleOtherMessage

(***************************************************************************)
(* The vessel monitor's noise filters (vessel_monitor.rs)                  *)
(*                                                                         *)
(* `now` is the monotonic clock (Instant::now) in seconds.                 *)
(* Speeds in knots are in units of 1e-7 kn.  A message's sog (m/s) is in   *)
(* units of 1/1214900 m/s, so that 0.01 m/s is 12149 units and             *)
(* multiplying by 1.94384 (= 12149 * 16 / 100000) is exact.                *)
(* Positions are on a grid of 1e-4 degree around (0, 0), where one half    *)
(* of a grid step is 556 cm along either axis; a median keeps twice its    *)
(* coordinates, so that the mean of two grid values stays an integer.      *)
(***************************************************************************)
EVENT_INTERVAL == 10
MOORING_DETECTION_WINDOW == 120
MAX_VALID_SOG_KN == 25
MAX_POSITION_DEVIATION_METERS == 100
POSITION_VALIDATION_WINDOW == 10
MIN_SAMPLES_FOR_VALIDATION == 10

\* u16 at bytes 4-5, times 0.01 m/s
CogSogRapidUpdate_from_bytes(raw) == [sog |-> raw * 12149]

\* sog * 1.94384
sog_knots(cog_sog_msg) == cog_sog_msg.sog * 16

\* The monitor is constructed when the clock reads 0.
VesselMonitor_new ==
    [positions |-> <<>>, speeds |-> <<>>, winds |-> <<>>, last_event_time |-> 0,
     engine_on |-> FALSE]

\* while let Some(sample) = front() { if sample.timestamp < cutoff { pop_front } else { break } }
RECURSIVE pop_front_older(_, _)
pop_front_older(samples, cutoff) ==
    IF samples # <<>> /\ Head(samples).timestamp < cutoff
    THEN pop_front_older(Tail(samples), cutoff)
    ELSE samples

above_max_sog_Inclusive(sog_kn) == sog_kn >= MAX_VALID_SOG_KN * 10000000

above_max_sog(sog_kn) == sog_kn > MAX_VALID_SOG_KN * 10000000

process_cog_sog(vm, t, cog_sog_msg) ==
    LET sog_kn == sog_knots(cog_sog_msg) IN
    IF above_max_sog(sog_kn) THEN vm
    ELSE LET pushed == Append(vm.speeds, [speed_kn |-> sog_kn, timestamp |-> t])
             cutoff == t - EVENT_INTERVAL - 5
         IN [vm EXCEPT !.speeds = pop_front_older(pushed, cutoff)]

\* f64::to_degrees, from 0.0001 rad to 0.01 degrees.
to_degrees(radians) == (radians * 5730) \div 10000

\* WindData::speed_knots: the speed (m/s, in the units of a message's sog)
\* times 1.94384.
WindData_speed_knots(wind_msg) == wind_msg.speed * 16

\* The apparent wind of the model blows from dead ahead (angle 0), where
\* cos is 1 and sin is 0 exactly; angles are in 0.01 degrees.
cos_of(angle_deg) == 1
sin_of(angle_deg) == 0

\* y.atan2(x).to_degrees() on the x axis: 0 for x >= 0, 180 for x < 0.
atan2_deg(y, x) == IF x >= 0 THEN 0 ELSE 18000

\* True wind from apparent wind and boat speed; below 0.2 kn of boat speed
\* the apparent wind is returned as it is.
calculate_true_wind(apparent_wind_speed_kn, apparent_wind_angle_deg, boat_speed_kn) ==
    IF Abs(boat_speed_kn) < 2000000
    THEN [speed |-> apparent_wind_speed_kn, angle |-> apparent_wind_angle_deg]
    ELSE LET tw_x == apparent_wind_speed_kn * cos_of(apparent_wind_angle_deg) - boat_speed_kn
             tw_y == apparent_wind_speed_kn * sin_of(apparent_wind_angle_deg)
         IN [speed |-> Abs(tw_x), angle |-> atan2_deg(tw_y, tw_x)]

normalize0_360(angle) == ((angle % 36000) + 36000) % 36000

speed_outdated_After10(speed_sample, t) == speed_sample.timestamp + 10 < t

\* speed_sample.timestamp + Duration::from_secs(5) < now
speed_outdated(speed_sample, t) == speed_sample.timestamp + 5 < t

\* VesselMonitor::process_wind: with a speed sample that is too old the
\* function returns at once; with a recent one the true wind is stored; then
\* (also with no speed sample at all) old wind samples are dropped.
VesselMonitor_process_wind(vm, t, wind_msg) ==
    LET wind_speed_kn == WindData_speed_knots(wind_msg)
        wind_angle_deg == to_degrees(wind_msg.angle)
        cutoff == t - 600 - 30
    IN IF vm.speeds # <<>>
       THEN LET speed_sample == vm.speeds[Len(vm.speeds)] IN
            IF speed_outdated(speed_sample, t) THEN vm
            ELSE LET tw == calculate_true_wind(wind_speed_kn, wind_angle_deg,
                                               speed_sample.speed_kn)
                     pushed == Append(vm.winds,
                                      [wind_speed_kn |-> tw.speed,
                                       wind_angle_deg |-> normalize0_360(tw.angle),
                                       timestamp |-> t])
                 IN [vm EXCEPT !.winds = pop_front_older(pushed, cutoff)]
       ELSE [vm EXCEPT !.winds = pop_front_older(vm.winds, cutoff)]

Position(latitude, longitude) == [latitude |-> latitude, longitude |-> longitude]

\* iter().rev().take_while(|s| s.timestamp >= cutoff): the positions of the
\* longest suffix of samples not older than cutoff, newest first.
RECURSIVE rev_take_while_recent(_, _)
rev_take_while_recent(samples, cutoff) ==
    IF samples = <<>> \/ samples[Len(samples)].timestamp < cutoff THEN <<>>
    ELSE <<samples[Len(samples)].position>>
         \o rev_take_while_recent(SubSeq(samples, 1, Len(samples) - 1), cutoff)

\* Median of a sorted list, doubled: (s[mid - 1] + s[mid]) / 2.0 for an even
\* length, s[mid] for an odd one, with mid = len / 2 counted from 0.
median_of_sorted_NoAveraging(sorted) == 2 * sorted[(Len(sorted) \div 2) + 1]

median_of_sorted(sorted) ==
    LET mid == Len(sorted) \div 2 IN
    IF Len(sorted) % 2 = 0 THEN sorted[mid] + sorted[mid + 1]
    ELSE 2 * sorted[mid + 1]

\* The component-wise median, with doubled coordinates.
calculate_median_position(positions) ==
    IF positions = <<>> THEN Position(0, 0)
    ELSE LET lats == SortSeq([i \in 1..Len(positions) |-> positions[i].latitude],
                             LAMBDA a, b : a < b)
             lons == SortSeq([i \in 1..Len(positions) |-> positions[i].longitude],
                             LAMBDA a, b : a < b)
         IN Position(median_of_sorted(lats), median_of_sorted(lons))

\* The square of the distance in cm between a position and a (doubled)
\* median: near (0, 0) the haversine distance is the plane distance.
distance_sq_cm(position, median) ==
    LET dlat == 2 * position.latitude - median.latitude
        dlon == 2 * position.longitude - median.longitude
    IN (dlat * dlat + dlon * dlon) * 556 * 556

too_few_samples_OffByOne(n) == n <= MIN_SAMPLES_FOR_VALIDATION

too_few_samples(n) == n < MIN_SAMPLES_FOR_VALIDATION

\* Samples older than the cutoff take no part in the validation.
validation_cutoff_MooringWindow(t) == t - MOORING_DETECTION_WINDOW

validation_cutoff(t) == t - POSITION_VALIDATION_WINDOW

is_valid_position(vm, t, position) ==
    LET cutoff == validation_cutoff(t)
        recent_positions == rev_take_while_recent(vm.positions, cutoff)
    IN IF too_few_samples(Len(recent_positions)) THEN TRUE
       ELSE LET median == calculate_median_position(recent_positions) IN
            distance_sq_cm(position, median)
                <= (MAX_POSITION_DEVIATION_METERS * 100) * (MAX_POSITION_DEVIATION_METERS * 100)

process_position(vm, t, position_msg) ==
    LET position == Position(position_msg.latitude, position_msg.longitude) IN
    IF ~is_valid_position(vm, t, position) THEN vm
    ELSE LET pushed == Append(vm.positions, [position |-> position, timestamp |-> t])
             cutoff == t - MOORING_DETECTION_WINDOW - 30
         IN [vm EXCEPT !.positions = pop_front_older(pushed, cutoff)]

\* Caps on the samples the buffers hold in the model.
MaxSpeeds == 3
MaxPositions == 11

\* Instants at which the monitor is called.
ClockTimes == {0, 6, 11, 170}

\* SOG as decoded from the wire (0.01 m/s steps) and, as the monitor takes a
\* decoded message, also values in between: exactly 25.0 kn, the next value
\* above it, and 25.0001 kn rounded up.
CogSogMessages ==
    {CogSogRapidUpdate_from_bytes(raw) : raw \in {0, 200, 1286, 1287, 10000}}
    \cup {[sog |-> s] : s \in {15625000, 15625001, 15625063}}

\* Positions (0, 0) and 89 m north, 67 m east of it.
PositionMessages == {Position(0, 0), Position(8, 6)}

VmLast(op, msg, t, before, accepted_before, accepted_total) ==
    [op |-> op, msg |-> msg, now |-> t, before |-> before,
     accepted_before |-> accepted_before, accepted_total |-> accepted_total]

InitVesselMonitor ==
    /\ vessel_monitor = VesselMonitor_new
    /\ now = 0
    /\ vm_last = VmLast("init", Position(0, 0), 0, VesselMonitor_new, 0, 0)

\* Time passes between two messages.
AdvanceClock(t) ==
    /\ t > now
    /\ now' = t
    /\ UNCHANGED <<vessel_monitor, vm_last, notVessel>>

\* handle_message with a COG & SOG message.
ProcessCogSog(msg) ==
    /\ Len(vessel_monitor.speeds) < MaxSpeeds
    /\ vessel_monitor' = process_cog_sog(vessel_monitor, now, msg)
    /\ vm_last' = VmLast("cog_sog", msg, now, vessel_monitor,
                         vm_last.accepted_total, vm_last.accepted_total)
    /\ UNCHANGED <<now, notVessel>>

\* handle_message with a position message; accepted_total counts the
\* positions accepted since construction, up to MIN_SAMPLES_FOR_VALIDATION.
ProcessPosition(msg) ==
    /\ Len(vessel_monitor.positions) < MaxPositions
    /\ LET after == process_position(vessel_monitor, now, msg)
           accepted == after # vessel_monitor
       IN /\ vessel_monitor' = after
          /\ vm_last' = VmLast("position", msg, now, vessel_monitor,
                               vm_last.accepted_total,
                               IF accepted
                               THEN Min(vm_last.accepted_total + 1, MIN_SAMPLES_FOR_VALIDATION)
                               ELSE vm_last.accepted_total)
    /\ UNCHANGED <<now, notVessel>>

NextSpeed ==
    \/ \E t \in ClockTimes : AdvanceClock(t)
    \/ \E msg \in CogSogMessages : ProcessCogSog(msg)

NextPosition ==
    \/ \E t \in ClockTimes : AdvanceClock(t)
    \/ \E msg \in PositionMessages : ProcessPosition(msg)

(* The three buffers of the monitor under position, COG & SOG and wind     *)
(* messages.                                                               *)
MaxBufferSamples == 2

\* Instants around the ages the buffers keep: 5 s (speed for the wind),
\* 15 s (speeds), 150 s (positions), 630 s (winds).
BufferClockTimes == {0, 5, 6, 16, 151, 631}

\* A speed the noise filter accepts (3.9 kn) and one it rejects (194 kn).
BufferCogSogMessages == {CogSogRapidUpdate_from_bytes(raw) : raw \in {200, 10000}}

\* Apparent wind of 5 m/s from dead ahead.
BufferWindMessages == {[speed |-> 500 * 12149, angle |-> 0]}

BufferProcessCogSog(msg) ==
    /\ Len(vessel_monitor.speeds) < MaxBufferSamples
    /\ ProcessCogSog(msg)

BufferProcessPosition(msg) ==
    /\ Len(vessel_monitor.positions) < MaxBufferSamples
    /\ ProcessPosition(msg)

\* handle_message with a wind message.
ProcessWind(msg) ==
    /\ Len(vessel_monitor.winds) < MaxBufferSamples
    /\ vessel_monitor' = VesselMonitor_process_wind(vessel_monitor, now, msg)
    /\ vm_last' = VmLast("wind", msg, now, vessel_monitor,
                         vm_last.accepted_total, vm_last.accepted_total)
    /\ UNCHANGED <<now, notVessel>>

NextBuffers ==
    \/ \E t \in BufferClockTimes : AdvanceClock(t)
    \/ \E msg \in BufferCogSogMessages : BufferProcessCogSog(msg)
    \/ \E msg \in {Position(0, 0)} : BufferProcessPosition(msg)
    \/ \E msg \in BufferWindMessages : ProcessWind(msg)

(***************************************************************************)
(* Trips, the store and the vessel status handler                          *)
(* (trip.rs, db.rs, vessel_status_handler.rs)                              *)
(*                                                                         *)
(* Instants are in seconds of the clock `now`; the SystemTime values a     *)
(* trip holds (the store keeps them as DATETIME(3)) and durations are in   *)
(* ms; distances are in units of the position grid (0.006 nm).             *)
(***************************************************************************)
interval_moored_seconds == 1800
interval_underway_seconds == 30

Trip_new(start_timestamp, description) ==
    [id |-> None,
     description |-> description,
     start_timestamp |-> start_timestamp,
     end_timestamp |-> start_timestamp,
     total_distance_sailed |-> 0,
     total_distance_motoring |-> 0,
     total_time_sailing |-> 0,
     total_time_motoring |-> 0,
     total_time_moored |-> 0]

Trip_update_MooredDistance(trip, end_timestamp, distance, time_ms, engine_on, is_moored) ==
    LET ended == [trip EXCEPT !.end_timestamp = end_timestamp] IN
    IF is_moored
    THEN [ended EXCEPT !.total_time_moored = @ + time_ms,
                       !.total_distance_sailed = @ + distance]
    ELSE IF engine_on
    THEN [ended EXCEPT !.total_distance_motoring = @ + distance,
                       !.total_time_motoring = @ + time_ms]
    ELSE [ended EXCEPT !.total_distance_sailed = @ + distance,
                       !.total_time_sailing = @ + time_ms]

Trip_update(trip, end_timestamp, distance, time_ms, engine_on, is_moored) ==
    LET ended == [trip EXCEPT !.end_timestamp = end_timestamp] IN
    IF is_moored
    THEN [ended EXCEPT !.total_time_moored = @ + time_ms]
    ELSE IF engine_on
    THEN [ended EXCEPT !.total_distance_motoring = @ + distance,
                       !.total_time_motoring = @ + time_ms]
    ELSE [ended EXCEPT !.total_distance_sailed = @ + distance,
                       !.total_time_sailing = @ + time_ms]

\* Duration::as_secs: the whole seconds of a duration.
as_secs(duration) == duration \div 1000

Trip_is_active(trip, current_time) ==
    LET duration == IF current_time > trip.end_timestamp
                    THEN current_time - trip.end_timestamp
                    ELSE trip.end_timestamp - current_time
    IN as_secs(duration) <= 24 * 60 * 60

Trip_total_distance(trip) == trip.total_distance_sailed + trip.total_distance_motoring

Trip_total_time(trip) ==
    trip.total_time_sailing + trip.total_time_motoring + trip.total_time_moored

\* The SystemTime of an instant of the clock.
dirty_instant_to_systemtime(instant) == instant * 1000

\* "Trip YYYY-MM-DD": the day of the timestamp.
Trip_description(start_timestamp) == <<"Trip", start_timestamp \div 86400000>>

VesselStatus(current_position, average_position, number_of_samples, max_speed_kn, is_moored, engine_on, timestamp) ==
    [current_position |-> current_position,
     average_position |-> average_position,
     number_of_samples |-> number_of_samples,
     max_speed_kn |-> max_speed_kn,
     is_moored |-> is_moored,
     engine_on |-> engine_on,
     timestamp |-> timestamp]

get_effective_position(status) ==
    IF status.is_moored /\ status.average_position # None
    THEN status.average_position.some
    ELSE status.current_position

\* Position::distance_to_nm: the haversine distance, which this close to
\* (0, 0) is the planar one; rounded down to the grid.
distance_to_nm(position, other) ==
    LET dlat == other.latitude - position.latitude
        dlon == other.longitude - position.longitude
        sq == dlat * dlat + dlon * dlon
    IN CHOOSE r \in 0..sq : r * r <= sq /\ (r + 1) * (r + 1) > sq

\* The distance between the effective positions and the time between the
\* timestamps of the previous persisted status and this one; (0, 0) when
\* there is no previous status.
get_total_distance_and_time_from_last_report(status, last_status) ==
    IF last_status # None
    THEN LET previous == last_status.some IN
         [distance_nm |-> distance_to_nm(get_effective_position(previous),
                                         get_effective_position(status)),
          time_ms |-> (status.timestamp - previous.timestamp) * 1000]
    ELSE [distance_nm |-> 0, time_ms |-> 0]

(* The store: the committed rows.  A trip's row is at the index of its id. *)
Store_empty == [vessel_status |-> <<>>, trips |-> <<>>, environmental_data |-> <<>>]

Ok(value) == [ok |-> value]
Err == [err |-> TRUE]

\* Where a store call fails: nowhere, or at one of its steps.
StoreFailures == {"none", "get_conn", "start_transaction", "status", "trip", "commit"}

TripOperation_CreateTrip(trip) == [kind |-> "CreateTrip", trip |-> trip]
TripOperation_UpdateTrip(trip) == [kind |-> "UpdateTrip", trip |-> trip]
TripOperation_None == [kind |-> "None"]

\* INSERT INTO vessel_status inside the transaction.
tx_insert_status(tx, status_op) ==
    [tx EXCEPT !.vessel_status = Append(@, status_op)]

\* The trip statement of the transaction: the rows after it, the id it
\* returns and whether a statement was executed at all.
tx_trip_operation(tx, trip_operation) ==
    IF trip_operation.kind = "CreateTrip"
    THEN LET id == Len(tx.trips) + 1 IN
         [tx |-> [tx EXCEPT !.trips = Append(@, [trip_operation.trip EXCEPT !.id = Some(id)])],
          trip_id |-> Some(id),
          executed |-> TRUE]
    ELSE IF trip_operation.kind = "UpdateTrip"
    THEN IF trip_operation.trip.id # None
         THEN LET trip_id == trip_operation.trip.id.some
                  u == trip_operation.trip
              IN [tx |-> [tx EXCEPT !.trips =
                            [i \in 1..Len(@) |->
                                IF i = trip_id
                                THEN [@[i] EXCEPT
                                        !.end_timestamp = u.end_timestamp,
                                        !.total_distance_sailed = u.total_distance_sailed,
                                        !.total_distance_motoring = u.total_distance_motoring,
                                        !.total_time_sailing = u.total_time_sailing,
                                        !.total_time_motoring = u.total_time_motoring,
                                        !.total_time_moored = u.total_time_moored]
                                ELSE @[i]]],
                  trip_id |-> None,
                  executed |-> TRUE]
         ELSE [tx |-> tx, trip_id |-> None, executed |-> FALSE]
    ELSE [tx |-> tx, trip_id |-> None, executed |-> FALSE]

\* The store after the call and its result; a failure at any step drops the
\* transaction, which rolls it back.
insert_status_and_trip(db, status_op, trip_operation, fail) ==
    IF fail \in {"get_conn", "start_transaction"} THEN [db |-> db, result |-> Err]
    ELSE
        LET tx1 == tx_insert_status(db, status_op) IN
        IF fail = "status" THEN [db |-> db, result |-> Err]
        ELSE
            LET t == tx_trip_operation(tx1, trip_operation) IN
            IF fail = "trip" /\ t.executed THEN [db |-> db, result |-> Err]
            ELSE IF fail = "commit" THEN [db |-> db, result |-> Err]
            ELSE [db |-> t.tx, result |-> Ok(t.trip_id)]

\* Instant::duration_since: zero when `earlier` is later.
duration_since(t, earlier) == IF t > earlier THEN t - earlier ELSE 0

VesselStatusConfig_default ==
    [interval_moored |-> interval_moored_seconds,
     interval_underway |-> interval_underway_seconds]

\* Config::validate_vessel_status_intervals: an interval outside 30..600 s
\* is replaced by its default.
validate_vessel_status_intervals(config) ==
    [interval_moored |->
        IF config.interval_moored < 30 \/ config.interval_moored > 600
        THEN VesselStatusConfig_default.interval_moored
        ELSE config.interval_moored,
     interval_underway |->
        IF config.interval_underway < 30 \/ config.interval_underway > 600
        THEN VesselStatusConfig_default.interval_underway
        ELSE config.interval_underway]

VesselStatusState_new_SeededNow(config, t) ==
    [last_vessel_status |-> None,
     last_reported_max_speed |-> 0,
     current_trip |-> None,
     last_db_persist_time |-> t,
     config |-> config]

VesselStatusState_new(config, t) ==
    [last_vessel_status |-> None,
     last_reported_max_speed |-> 0,
     current_trip |-> None,
     last_db_persist_time |-> t - 86400,
     config |-> config]

should_persist_to_db_Swapped(state, t, is_moored) ==
    LET interval == IF is_moored THEN state.config.interval_underway
                    ELSE state.config.interval_moored
    IN duration_since(t, state.last_db_persist_time) >= interval

should_persist_to_db(state, t, is_moored) ==
    LET interval == IF is_moored THEN state.config.interval_moored
                    ELSE state.config.interval_underway
    IN duration_since(t, state.last_db_persist_time) >= interval

mark_db_persisted(state, t) == [state EXCEPT !.last_db_persist_time = t]

\* The trip operation to perform and current_trip as the function leaves it.
determine_trip_operation(current_trip, status, distance, time_ms) ==
    LET report_time == dirty_instant_to_systemtime(status.timestamp)
        should_create_new == IF current_trip # None
                             THEN ~Trip_is_active(current_trip.some, report_time)
                             ELSE TRUE
    IN IF should_create_new
       THEN LET new_trip == Trip_update(Trip_new(report_time, Trip_description(report_time)),
                                        report_time, distance, time_ms,
                                        status.engine_on, status.is_moored)
            IN [current_trip |-> Some(new_trip),
                operation |-> TripOperation_CreateTrip(new_trip)]
       ELSE LET trip == Trip_update(current_trip.some, report_time, distance, time_ms,
                                    status.engine_on, status.is_moored)
            IN [current_trip |-> Some(trip),
                operation |-> TripOperation_UpdateTrip(trip)]

\* VesselStatusHandler::handle_vessel_status at instant t: the handler's
\* state and the store afterwards, the result (Ok(TRUE), Ok(FALSE) or Err)
\* and the operations handed to the store, if any.
handle_vessel_status(state, has_db, db, status, t, fail) ==
    IF has_db /\ should_persist_to_db(state, t, status.is_moored)
    THEN
        LET position == get_effective_position(status)
            delta == get_total_distance_and_time_from_last_report(status, state.last_vessel_status)
            total_distance_nm == delta.distance_nm
            total_time_ms == delta.time_ms
            average_speed == IF total_time_ms > 0
                             THEN (total_distance_nm * 1000000) \div (total_time_ms \div 1000)
                             ELSE 0
            max_speed == IF state.last_reported_max_speed > status.max_speed_kn
                         THEN state.last_reported_max_speed
                         ELSE status.max_speed_kn
            d == determine_trip_operation(state.current_trip, status,
                                          total_distance_nm, total_time_ms)
            state1 == [state EXCEPT !.last_reported_max_speed = max_speed,
                                    !.current_trip = d.current_trip]
            status_operation ==
                [time |-> status.timestamp,
                 latitude |-> position,
                 average_speed |-> average_speed,
                 max_speed |-> max_speed,
                 is_moored |-> status.is_moored,
                 engine_on |-> status.engine_on,
                 total_distance_nm |-> total_distance_nm,
                 total_time_ms |-> total_time_ms]
            r == insert_status_and_trip(db, status_operation, d.operation, fail)
        IN IF r.result # Err
           THEN LET new_trip_id == r.result.ok
                    state2 == [mark_db_persisted(state1, t) EXCEPT
                                 !.last_vessel_status = Some(status),
                                 !.last_reported_max_speed = 0]
                IN [state |-> IF new_trip_id # None /\ state2.current_trip # None
                              THEN [state2 EXCEPT !.current_trip =
                                      Some([state2.current_trip.some EXCEPT !.id = new_trip_id])]
                              ELSE state2,
                    db |-> r.db,
                    result |-> Ok(TRUE),
                    called |-> Some([status_operation |-> status_operation,
                                     trip_operation |-> d.operation])]
           ELSE [state |-> state1, db |-> r.db, result |-> Err,
                 called |-> Some([status_operation |-> status_operation,
                                  trip_operation |-> d.operation])]
    ELSE [state |-> state, db |-> db, result |-> Ok(FALSE), called |-> None]

\* Caps on the vessel_status rows of the store and on the store calls that
\* fail in the model.
MaxRows == 2
MaxFailures == 2

\* Instants at which a status is handed to the handler: around the underway
\* and the moored interval after the first one.
HandlerClockTimes == {0, 29, 30, 1799, 1800}

\* Statuses the monitor generates at instant t: sailing, motoring, and
\* moored with an average position.
StatusesAt(t) ==
    {VesselStatus(Position(3, 0), None, 0, 7, FALSE, FALSE, t),
     VesselStatus(Position(0, 0), None, 0, 2, FALSE, TRUE, t),
     VesselStatus(Position(0, 0), Some(Position(0, 1)), 1, 0, TRUE, FALSE, t)}

\* The trip the store holds at startup, if any: it ended one hour before.
PreviousTrip ==
    [Trip_update(Trip_new(-7200000, Trip_description(-7200000)), -3600000, 5, 3600000,
                 FALSE, FALSE)
        EXCEPT !.id = Some(1)]

HsLast(op, t, status, has_db, state_before, db_before, r, prev_persist, failures) ==
    [op |-> op, now |-> t, status |-> status, has_db |-> has_db,
     state_before |-> state_before, db_before |-> db_before,
     result |-> r.result, called |-> r.called,
     prev_persist |-> prev_persist,
     last_persist |-> IF r.result = Ok(TRUE) THEN Some(t) ELSE prev_persist,
     failures |-> failures + (IF r.result = Err THEN 1 ELSE 0)]

\* A trip the store holds at startup that ended half a second before.
RecentTrip ==
    [Trip_update(Trip_new(-3600500, Trip_description(-3600500)), -500, 5, 3600000,
                 FALSE, FALSE)
        EXCEPT !.id = Some(1)]

\* VesselStatusHandler::new, then load_last_trip, which finds `last_trip`
\* in the store or none.
InitHandlerLoading(last_trip) ==
    /\ store = IF last_trip # None THEN [Store_empty EXCEPT !.trips = <<last_trip.some>>]
               ELSE Store_empty
    /\ status_handler =
          [VesselStatusState_new(VesselStatusConfig_default, 0) EXCEPT
              !.current_trip = last_trip]
    /\ hs_last = HsLast("init", 0, VesselStatus(Position(0, 0), None, 0, 0, FALSE, FALSE, 0), FALSE,
                        status_handler, store,
                        [result |-> Ok(FALSE), called |-> None], None, 0)

InitHandlerWith(loaded) == InitHandlerLoading(IF loaded THEN Some(PreviousTrip) ELSE None)

\* A status is handed to the handler while the store handle is there or not;
\* the store call fails at `fail`.
HandleVesselStatus(status, has_db, fail) ==
    /\ Len(store.vessel_status) < MaxRows
    /\ fail # "none" => hs_last.failures < MaxFailures
    /\ LET r == handle_vessel_status(status_handler, has_db, store, status, now, fail) IN
        /\ status_handler' = r.state
        /\ store' = r.db
        /\ hs_last' = HsLast("handle", now, status, has_db, status_handler, store,
                             r, hs_last.last_persist, hs_last.failures)
    /\ UNCHANGED <<now, vessel_monitor, vm_last, readerVars, timeVars, mainVars, statusVars, tripVars, envHandlerVars, cadenceVars, canVars, reconnectVars, healthVars, filterVars, configVars, speedVars, envBufferVars>>

NextHandler ==
    \/ \E t \in HandlerClockTimes : AdvanceClock(t)
    \/ \E status \in StatusesAt(now), fail \in StoreFailures :
          HandleVesselStatus(status, TRUE, fail)
    \/ \E status \in StatusesAt(now) : HandleVesselStatus(status, FALSE, "none")

(* Statuses handed to the handler at a fixed period, the store working.    *)
\* The statuses of ten minutes at one every EVENT_INTERVAL.
MaxCadenceStatuses == 60

\* Intervals as the configuration file may give them.
RawIntervals == {29, 30, 600, 601, 1800, 86401}

\* The status of the period's kind that the monitor generates at instant t.
CadenceStatus(kind, t) ==
    IF kind = "moored"
    THEN VesselStatus(Position(0, 0), Some(Position(0, 1)), 1, 0, TRUE, FALSE, t)
    ELSE VesselStatus(Position(3, 0), None, 0, 7, FALSE, FALSE, t)

\* No statuses are handed over at a fixed period.
InitIdleCadence == cadence = [kind |-> "underway", handled |-> 0, handled_at |-> None]

\* Config::from_file and VesselStatusHandler::new at instant 0.
InitCadence ==
    /\ cadence \in [kind : {"underway", "moored"}, handled : {0}, handled_at : {None}]
    /\ store = Store_empty
    /\ \E moored, underway \in RawIntervals :
          status_handler = VesselStatusState_new(
              validate_vessel_status_intervals(
                  [interval_moored |-> moored, interval_underway |-> underway]), 0)
    /\ hs_last = HsLast("init", 0, VesselStatus(Position(0, 0), None, 0, 0, FALSE, FALSE, 0), FALSE,
                        status_handler, store,
                        [result |-> Ok(FALSE), called |-> None], None, 0)

\* The status of this instant is handed to the handler.
CadenceHandle ==
    /\ cadence.handled < MaxCadenceStatuses
    /\ cadence.handled_at # Some(now)
    /\ LET status == CadenceStatus(cadence.kind, now)
           r == handle_vessel_status(status_handler, TRUE, store, status, now, "none")
       IN /\ status_handler' = r.state
          /\ store' = r.db
          /\ hs_last' = HsLast("handle", now, status, TRUE, status_handler, store,
                               r, hs_last.last_persist, hs_last.failures)
    /\ cadence' = [cadence EXCEPT !.handled = @ + 1, !.handled_at = Some(now)]
    /\ UNCHANGED <<now, vessel_monitor, vm_last, readerVars, timeVars, mainVars,
                   statusVars, tripVars, envHandlerVars, canVars, reconnectVars, healthVars, filterVars, configVars, speedVars, envBufferVars>>

\* The monitor's next status is due EVENT_INTERVAL later.
CadenceAdvance ==
    /\ cadence.handled_at = Some(now)
    /\ cadence.handled < MaxCadenceStatuses
    /\ AdvanceClock(now + EVENT_INTERVAL)
    /\ UNCHANGED cadenceVars

NextCadence ==
    \/ CadenceHandle
    \/ CadenceAdvance

(* Trip::update applied to a trip again and again. *)
MaxTripUpdates == 3
TripEndTimes == {100000, 200000}
TripDistances == {0, 3}
TripTimes == {1000, 2500}

TripLast(op, end_timestamp, distance, time_ms, engine_on, is_moored, before, updates, sum_time, sum_distance) ==
    [op |-> op, end_timestamp |-> end_timestamp, distance |-> distance,
     time_ms |-> time_ms, engine_on |-> engine_on, is_moored |-> is_moored,
     before |-> before, updates |-> updates,
     sum_time |-> sum_time, sum_distance |-> sum_distance]

InitTripUpdates ==
    /\ one_trip = Trip_new(0, Trip_description(0))
    /\ trip_last = TripLast("new", 0, 0, 0, FALSE, FALSE, one_trip, 0, 0, 0)

TripUpdate(end_timestamp, distance, time_ms, engine_on, is_moored) ==
    /\ trip_last.updates < MaxTripUpdates
    /\ one_trip' = Trip_update(one_trip, end_timestamp, distance, time_ms, engine_on, is_moored)
    /\ trip_last' = TripLast("update", end_timestamp, distance, time_ms, engine_on, is_moored,
                             one_trip, trip_last.updates + 1,
                             trip_last.sum_time + time_ms,
                             trip_last.sum_distance + (IF is_moored THEN 0 ELSE distance))
    /\ UNCHANGED <<readerVars, timeVars, vesselVars, handlerVars, mainVars, statusVars, envHandlerVars, cadenceVars, canVars, reconnectVars, healthVars, filterVars, configVars, speedVars, envBufferVars>>

NextTripUpdate ==
    \E end_timestamp \in TripEndTimes, distance \in TripDistances, time_ms \in TripTimes,
       engine_on \in BOOLEAN, is_moored \in BOOLEAN :
        TripUpdate(end_timestamp, distance, time_ms, engine_on, is_moored)

\* Statuses a day apart: the handler around the 24 h of Trip::is_active.
TripClockTimes == {0, 86399, 86400, 86401}

NextTrip ==
    \/ \E t \in TripClockTimes : AdvanceClock(t)
    \/ \E status \in StatusesAt(now), fail \in StoreFailures :
          HandleVesselStatus(status, TRUE, fail)

(***************************************************************************)
(* The status the vessel monitor generates (vessel_monitor.rs)             *)
(***************************************************************************)
MOORING_THRESHOLD_METERS == 30
MOORING_ACCURACY_PERCENT == 90

\* engine_speed.map(|rpm| rpm > 0.0).unwrap_or(false)
is_engine_running(engine_msg) ==
    IF engine_msg.engine_speed = None THEN FALSE
    ELSE engine_msg.engine_speed.some > 0

process_engine(vm, engine_msg) ==
    [vm EXCEPT !.engine_on = is_engine_running(engine_msg)]

should_generate_event_Early(vm, t) ==
    2 * duration_since(t, vm.last_event_time) >= EVENT_INTERVAL

should_generate_event(vm, t) ==
    duration_since(t, vm.last_event_time) >= EVENT_INTERVAL

\* The loop of calculate_average_position: from the newest position back,
\* until one is more than `window` after the last event.
RECURSIVE rev_until_after_event(_, _, _)
rev_until_after_event(samples, last_event_time, window) ==
    IF samples = <<>>
       \/ duration_since(samples[Len(samples)].timestamp, last_event_time) > window
    THEN <<>>
    ELSE <<samples[Len(samples)].position>>
         \o rev_until_after_event(SubSeq(samples, 1, Len(samples) - 1),
                                  last_event_time, window)

RECURSIVE sum_latitude(_)
sum_latitude(positions) ==
    IF positions = <<>> THEN 0
    ELSE Head(positions).latitude + sum_latitude(Tail(positions))

RECURSIVE sum_longitude(_)
sum_longitude(positions) ==
    IF positions = <<>> THEN 0
    ELSE Head(positions).longitude + sum_longitude(Tail(positions))

\* The mean of those positions, rounded down to the grid.
calculate_average_position(vm, window) ==
    LET taken == rev_until_after_event(vm.positions, vm.last_event_time, window)
        sample_count == Len(taken)
    IN [sample_count |-> sample_count,
        average_position |->
            IF sample_count > 0
            THEN Some(Position(sum_latitude(taken) \div sample_count,
                               sum_longitude(taken) \div sample_count))
            ELSE None]

\* The loop of calculate_average_and_max_speed: the speeds from the newest
\* back to the first one older than cutoff.
RECURSIVE rev_speeds_while_recent(_, _)
rev_speeds_while_recent(samples, cutoff) ==
    IF samples = <<>> \/ samples[Len(samples)].timestamp < cutoff THEN <<>>
    ELSE <<samples[Len(samples)].speed_kn>>
         \o rev_speeds_while_recent(SubSeq(samples, 1, Len(samples) - 1), cutoff)

RECURSIVE max_of(_, _)
max_of(values, start) ==
    IF values = <<>> THEN start
    ELSE max_of(Tail(values), IF Head(values) > start THEN Head(values) ELSE start)

RECURSIVE sum_of(_)
sum_of(values) ==
    IF values = <<>> THEN 0 ELSE Head(values) + sum_of(Tail(values))

calculate_average_and_max_speed(vm, t, window) ==
    LET recent == rev_speeds_while_recent(vm.speeds, t - window)
        count == Len(recent)
    IN [count |-> count,
        average_speed_kn |-> IF count > 0 THEN sum_of(recent) \div count ELSE 0,
        max_speed_kn |-> max_of(recent, 0)]

\* A position is within the mooring threshold of the mean of n positions:
\* the distance is compared after multiplying both sides by n, so that the
\* mean is exact; 278 is a quarter of the cm in one grid step.
within_mooring_threshold(position, n, sum_lat, sum_lon) ==
    LET dlat == n * position.latitude - sum_lat
        dlon == n * position.longitude - sum_lon
        limit == MOORING_THRESHOLD_METERS * 25 * n
    IN (dlat * dlat + dlon * dlon) * 278 * 278 <= limit * limit

is_vessel_moored(vm, t) ==
    IF Len(vm.positions) < 2 THEN FALSE
    ELSE
        LET cutoff == t - MOORING_DETECTION_WINDOW
            recent_samples == SelectSeq(vm.positions, LAMBDA p : p.timestamp >= cutoff)
            recent_positions == [i \in 1..Len(recent_samples) |-> recent_samples[i].position]
            n == Len(recent_positions)
        IN IF n = 0 THEN FALSE
           ELSE LET sum_lat == sum_latitude(recent_positions)
                    sum_lon == sum_longitude(recent_positions)
                    within == {i \in 1..n :
                                 within_mooring_threshold(recent_positions[i], n,
                                                          sum_lat, sum_lon)}
                IN Cardinality(within) >= (n * MOORING_ACCURACY_PERCENT) \div 100

\* The monitor after the call and the status, if one is generated.
generate_status(vm, t) ==
    IF ~should_generate_event(vm, t) \/ vm.positions = <<>>
    THEN [vm |-> vm, status |-> None]
    ELSE
        LET current_position == vm.positions[Len(vm.positions)].position
            average == calculate_average_position(vm, EVENT_INTERVAL)
            speed == calculate_average_and_max_speed(vm, t, EVENT_INTERVAL)
            is_moored == is_vessel_moored(vm, t)
            timestamp == vm.positions[Len(vm.positions)].timestamp
        IN [vm |-> [vm EXCEPT !.last_event_time = t],
            status |-> Some(VesselStatus(current_position, average.average_position,
                                         average.sample_count,
                                         speed.max_speed_kn, is_moored,
                                         vm.engine_on, timestamp))]

\* Cap on the positions the buffer holds in the model of status generation.
MaxStatusPositions == 3

\* Instants of the calls: within an event interval of construction, at one
\* and two intervals, and past the mooring window.
StatusClockTimes == {0, 5, 10, 20, 130}

\* Positions (0, 0) and 67 m north of it.
StatusPositions == {Position(0, 0), Position(6, 0)}

\* The last call of generate_status: the instant, the monitor before and
\* after, the status returned and the instant of the status emitted before
\* it, if any.
GsLast(op, t, before, after, status, previous_emission) ==
    [op |-> op, now |-> t, before |-> before, after |-> after, status |-> status,
     previous_emission |-> previous_emission]

InitStatusCalls ==
    gs_last = GsLast("init", 0, VesselMonitor_new, VesselMonitor_new, None, None)

\* handle_message with a position message, while the buffer has room.
StatusProcessPosition(msg) ==
    /\ Len(vessel_monitor.positions) < MaxStatusPositions
    /\ ProcessPosition(msg)

\* A call of generate_status.
GenerateStatus ==
    /\ \E g \in {generate_status(vessel_monitor, now)} :
          /\ vessel_monitor' = g.vm
          /\ gs_last' = GsLast("generate_status", now, vessel_monitor, g.vm, g.status,
                               IF gs_last.status # None THEN Some(gs_last.now)
                               ELSE gs_last.previous_emission)
    /\ UNCHANGED <<now, vm_last, readerVars, timeVars, handlerVars, mainVars, tripVars, envHandlerVars, cadenceVars, canVars, reconnectVars, healthVars, filterVars, configVars, speedVars, envBufferVars>>

NextStatus ==
    \/ \E t \in StatusClockTimes : AdvanceClock(t)
    \/ \E msg \in StatusPositions : StatusProcessPosition(msg)
    \/ GenerateStatus

(***************************************************************************)
(* The environmental monitor (environmental_monitor.rs) and the rows of    *)
(* environmental_data (db.rs).  Sample values are integers: temperatures   *)
(* in 0.01 K and 0.01 C, angles in 0.0001 rad and 0.01 degrees.            *)
(***************************************************************************)
SAMPLE_INTERVAL == 60

MetricIds ==
    {"Pressure", "CabinTemp", "WaterTemp", "Humidity", "WindSpeed", "WindDir", "Roll"}

MetricId_as_u8 ==
    [Pressure |-> 1, CabinTemp |-> 2, WaterTemp |-> 3, Humidity |-> 4,
     WindSpeed |-> 5, WindDir |-> 6, Roll |-> 7]

MetricId_unit ==
    [Pressure |-> "Pa", CabinTemp |-> "C", WaterTemp |-> "C", Humidity |-> "%",
     WindSpeed |-> "m/s", WindDir |-> "deg", Roll |-> "deg"]

\* The persistence period of each metric, in seconds.
EnvironmentalConfig_default ==
    [WindSpeed |-> 30, WindDir |-> 30, Roll |-> 30, Pressure |-> 120,
     CabinTemp |-> 300, WaterTemp |-> 300, Humidity |-> 300]

EnvironmentalMonitor_new(config) ==
    [samples |-> [m \in MetricIds |-> <<>>],
     last_db_persist |-> [m \in MetricIds |-> None],
     config |-> config]

Sample(value, timestamp) == [value |-> value, timestamp |-> timestamp]

push_back(em, metric, value, t) ==
    [em EXCEPT !.samples[metric] = Append(@, Sample(value, t))]

\* Every buffer but the roll's drops its samples older than the cutoff.
cleanup_samples(em, t) ==
    LET cutoff == t - SAMPLE_INTERVAL - 10 IN
    [em EXCEPT !.samples =
        [m \in MetricIds |-> IF m = "Roll" THEN @[m] ELSE pop_front_older(@[m], cutoff)]]

process_temperature(em, t, temp) ==
    IF temp.instance = 0
    THEN LET celsius == temp.temperature - 27315 IN
         IF temp.source = 4 /\ temp.instance = 0
         THEN cleanup_samples(push_back(em, "CabinTemp", celsius, t), t)
         ELSE IF temp.source = 0 /\ temp.instance = 0
         THEN cleanup_samples(push_back(em, "WaterTemp", celsius, t), t)
         ELSE em
    ELSE em

process_wind(em, t, wind) ==
    cleanup_samples(
        push_back(push_back(em, "WindSpeed", wind.speed, t),
                  "WindDir", to_degrees(wind.angle), t), t)

process_humidity(em, t, hum) ==
    cleanup_samples(push_back(em, "Humidity", hum.actual_humidity, t), t)

process_actual_pressure(em, t, pressure) ==
    IF pressure.instance = 0 /\ pressure.source = 0
    THEN cleanup_samples(push_back(em, "Pressure", pressure.pressure, t), t)
    ELSE em

roll_degrees(attitude) ==
    IF attitude.roll = None THEN None ELSE Some(to_degrees(attitude.roll.some))

process_attitude(em, t, attitude) ==
    IF roll_degrees(attitude) # None
    THEN cleanup_samples(push_back(em, "Roll", roll_degrees(attitude).some, t), t)
    ELSE em

\* The order in which get_metrics_to_persist lists the metrics.
MetricOrder ==
    <<"WindSpeed", "WindDir", "Roll", "Pressure", "CabinTemp", "WaterTemp", "Humidity">>

get_metrics_to_persist(em, t) ==
    SelectSeq(MetricOrder,
              LAMBDA m : IF em.last_db_persist[m] # None
                         THEN duration_since(t, em.last_db_persist[m].some) >= em.config[m]
                         ELSE TRUE)

\* avg, max, min and count over the samples the metric's buffer holds; None
\* when it holds none.  The mean is rounded down.
calculate_metric_data(em, metric) ==
    LET values == [i \in 1..Len(em.samples[metric]) |-> em.samples[metric][i].value] IN
    IF values = <<>> THEN None
    ELSE Some([avg |-> Some(sum_of(values) \div Len(values)),
               max |-> Some(max_of(values, values[1])),
               min |-> Some(-max_of([i \in 1..Len(values) |-> -values[i]], -values[1])),
               count |-> Some(Len(values))])

mark_metric_persisted(em, metric, t) ==
    [em EXCEPT !.last_db_persist[metric] = Some(t)]

cleanup_all_samples(em, metric) == [em EXCEPT !.samples[metric] = <<>>]

\* INSERT ... ON DUPLICATE KEY UPDATE on the key (timestamp, metric_id).
upsert_environmental_data(rows, row) ==
    IF \E i \in 1..Len(rows) : rows[i].timestamp = row.timestamp
                               /\ rows[i].metric_id = row.metric_id
    THEN [i \in 1..Len(rows) |->
            IF rows[i].timestamp = row.timestamp /\ rows[i].metric_id = row.metric_id
            THEN row ELSE rows[i]]
    ELSE Append(rows, row)

\* The store after the call and its result; `fail` is a failure of get_conn
\* or of the statement.
insert_environmental_metrics(db, data, metric_id, wall_now, fail) ==
    IF fail THEN [db |-> db, result |-> Err]
    ELSE IF data.avg # None \/ data.max # None \/ data.min # None
    THEN [db |-> [db EXCEPT !.environmental_data =
                    upsert_environmental_data(@,
                        [timestamp |-> wall_now,
                         metric_id |-> MetricId_as_u8[metric_id],
                         value_avg |-> data.avg,
                         value_max |-> data.max,
                         value_min |-> data.min,
                         unit |-> MetricId_unit[metric_id]])],
          result |-> Ok(TRUE)]
    ELSE [db |-> db, result |-> Ok(TRUE)]

(***************************************************************************)
(* The environmental status handler (environmental_status_handler.rs)      *)
(***************************************************************************)
N2kMessage(kind, body) == [kind |-> kind, body |-> body]

\* MetricId::ALL_METRICS, in the order of the metrics' integers.
ALL_METRICS ==
    <<"Pressure", "CabinTemp", "WaterTemp", "Humidity", "WindSpeed", "WindDir", "Roll">>

has_samples(em, metric) == em.samples[metric] # <<>>

get_period(config, metric) == config[metric]

EnvironmentalStatusState_new_SeededNow(environmental_config, t) ==
    [timing |-> [m \in MetricIds |-> t],
     config |-> environmental_config]

\* Every metric's last persist is seeded one period before the construction.
EnvironmentalStatusState_new(environmental_config, t) ==
    [timing |-> [m \in MetricIds |-> t - get_period(environmental_config, m)],
     config |-> environmental_config]

EnvironmentalStatusState_get_metrics_to_persist(state, em, t) ==
    SelectSeq(ALL_METRICS,
              LAMBDA metricid :
                  /\ duration_since(t, state.timing[metricid])
                        >= get_period(state.config, metricid)
                  /\ has_samples(em, metricid))

EnvironmentalStatusState_mark_metric_persisted_All(state, metric, t) ==
    [state EXCEPT !.timing = [m \in MetricIds |-> t]]

EnvironmentalStatusState_mark_metric_persisted(state, metric, t) ==
    [state EXCEPT !.timing[metric] = t]

\* The loop over metrics_to_persist: the monitor, the state and the store
\* after it, its result (the count added to `written_count`, or Err) and
\* the metrics handed to the store; the store fails for the metrics in
\* `failing`.  The first failing write returns from the function.
RECURSIVE persist_each(_, _, _, _, _, _, _, _)
persist_each(metrics, db, em, state, t, wall_now, failing, written_count) ==
    IF metrics = <<>>
    THEN [em |-> em, state |-> state, db |-> db, result |-> Ok(written_count),
          handed |-> <<>>]
    ELSE
        LET metricid == Head(metrics)
            data == calculate_metric_data(em, metricid)
        IN IF data # None
           THEN LET r == insert_environmental_metrics(db, data.some, metricid, wall_now,
                                                      metricid \in failing)
                IN IF r.result = Err
                   THEN [em |-> em, state |-> state, db |-> r.db, result |-> Err,
                         handed |-> <<metricid>>]
                   ELSE LET rest == persist_each(
                                        Tail(metrics), r.db,
                                        cleanup_all_samples(em, metricid),
                                        EnvironmentalStatusState_mark_metric_persisted(
                                            state, metricid, t),
                                        t, wall_now, failing, written_count + 1)
                        IN [rest EXCEPT !.handed = <<metricid>> \o @]
           ELSE persist_each(Tail(metrics), db, em, state, t, wall_now, failing,
                             written_count)

handle_environment_status(vessel_db, db, em, state, t, wall_now, failing) ==
    IF vessel_db
    THEN persist_each(EnvironmentalStatusState_get_metrics_to_persist(state, em, t),
                      db, em, state, t, wall_now, failing, 0)
    ELSE [em |-> em, state |-> state, db |-> db, result |-> Ok(0), handed |-> <<>>]

\* Caps on the samples a buffer holds, on the rows of environmental_data
\* and on the failing calls.
MaxHandlerSamples == 1
MaxHandlerRows == 3
MaxHandlerFailures == 1

\* Instants of the handler's ticks: the construction, just before and at
\* the period of the wind metrics, at the period of the pressure.
EnvClockTimes == {0, 29, 30, 120}

\* The messages that fill the buffers: wind (two metrics of period 30 s)
\* and pressure (120 s).
EnvMessages ==
    {N2kMessage("WindData", [speed |-> 5, angle |-> 10000]),
     N2kMessage("ActualPressure", [instance |-> 0, source |-> 0, pressure |-> 101300])}

\* The buffers a message of the kind is pushed to.
EnvMetricsOf(kind) ==
    IF kind = "WindData" THEN {"WindSpeed", "WindDir"} ELSE {"Pressure"}

\* The metrics whose store write fails during a tick.
EnvFailures == {{}, {"WindSpeed"}, {"WindDir"}}

EhLast(op, t, vessel_db, failing, em_before, state_before, r, persisted, failures) ==
    [op |-> op, now |-> t, vessel_db |-> vessel_db, failing |-> failing,
     em_before |-> em_before, state_before |-> state_before,
     em_after |-> r.em, state_after |-> r.state,
     result |-> r.result, handed |-> r.handed,
     persisted_before |-> persisted,
     persisted |-> persisted \cup ({r.handed[i] : i \in 1..Len(r.handed)} \ failing),
     failures |-> failures + (IF r.result = Err THEN 1 ELSE 0)]

\* EnvironmentalStatusHandler::new at instant 0.
InitEnvHandler ==
    /\ env_status_handler = EnvironmentalStatusState_new(EnvironmentalConfig_default, 0)
    /\ eh_last = EhLast("init", 0, FALSE, {}, EnvironmentalMonitor_new(EnvironmentalConfig_default),
                        env_status_handler,
                        [em |-> EnvironmentalMonitor_new(EnvironmentalConfig_default),
                         state |-> env_status_handler,
                         result |-> Ok(0), handed |-> <<>>], {}, 0)

\* The environmental monitor takes a message.
EnvProcessMessage(message) ==
    /\ \A m \in EnvMetricsOf(message.kind) :
          Len(env_monitor.samples[m]) < MaxHandlerSamples
    /\ env_monitor' =
          IF message.kind = "WindData" THEN process_wind(env_monitor, now, message.body)
          ELSE process_actual_pressure(env_monitor, now, message.body)
    /\ UNCHANGED <<main, mn_last, readerVars, timeVars, vesselVars, handlerVars,
                   statusVars, tripVars, envHandlerVars, cadenceVars, canVars, reconnectVars, healthVars, filterVars, configVars, speedVars, envBufferVars>>

\* One call of handle_environment_status at the instant `now`.
HandleEnvironmentStatus(vessel_db, failing) ==
    /\ Len(store.environmental_data) < MaxHandlerRows
    /\ failing # {} => eh_last.failures < MaxHandlerFailures
    /\ \E r \in {handle_environment_status(vessel_db, store, env_monitor,
                                           env_status_handler, now,
                                           dirty_instant_to_systemtime(now), failing)} :
          /\ env_monitor' = r.em
          /\ env_status_handler' = r.state
          /\ store' = r.db
          /\ eh_last' = EhLast("handle", now, vessel_db, failing, env_monitor,
                               env_status_handler, r, eh_last.persisted, eh_last.failures)
    /\ UNCHANGED <<main, mn_last, status_handler, hs_last, readerVars, timeVars, vesselVars,
                   statusVars, tripVars, cadenceVars, canVars, reconnectVars, healthVars, filterVars, configVars, speedVars, envBufferVars>>

NextEnvHandler ==
    \/ \E t \in EnvClockTimes : AdvanceClock(t)
    \/ \E message \in EnvMessages : EnvProcessMessage(message)
    \/ \E failing \in EnvFailures : HandleEnvironmentStatus(TRUE, failing)
    \/ HandleEnvironmentStatus(FALSE, {})

(***************************************************************************)
(* The main loop (main.rs)                                                 *)
(*                                                                         *)
(* main keeps last_vessel_status, last_reported_max_speed and current_trip *)
(* as locals and asks the vessel monitor whether a status is due; the      *)
(* model keeps the four in one record of the shape of VesselStatusState.   *)
(***************************************************************************)

\* The monitors after handle_message at instant t and wall clock wall_now.
handle_message(vm, tm, em, t, wall_now, message) ==
    LET same == [vessel_monitor |-> vm, time_monitor |-> tm, env_monitor |-> em] IN
    CASE message.kind = "PositionRapidUpdate" ->
            [same EXCEPT !.vessel_monitor = process_position(vm, t, message.body)]
      [] message.kind = "CogSogRapidUpdate" ->
            [same EXCEPT !.vessel_monitor = process_cog_sog(vm, t, message.body)]
      [] message.kind = "NMEASystemTime" ->
            [same EXCEPT !.time_monitor = process_system_time(tm, wall_now, message.body).tm]
      [] message.kind = "Temperature" ->
            [same EXCEPT !.env_monitor = process_temperature(em, t, message.body)]
      [] message.kind = "WindData" ->
            [same EXCEPT !.env_monitor = process_wind(em, t, message.body)]
      [] message.kind = "Humidity" ->
            [same EXCEPT !.env_monitor = process_humidity(em, t, message.body)]
      [] message.kind = "ActualPressure" ->
            [same EXCEPT !.env_monitor = process_actual_pressure(em, t, message.body)]
      [] message.kind = "Attitude" ->
            [same EXCEPT !.env_monitor = process_attitude(em, t, message.body)]
      [] message.kind = "EngineRapidUpdate" ->
            [same EXCEPT !.vessel_monitor = process_engine(vm, message.body)]
      [] OTHER -> same

\* The store's single-statement calls of main: the store after the call and
\* its result.
insert_status(db, status_operation, fail) ==
    IF fail THEN [db |-> db, result |-> Err]
    ELSE [db |-> tx_insert_status(db, status_operation), result |-> Ok(TRUE)]

insert_trip(db, trip, fail) ==
    IF fail THEN [db |-> db, result |-> Err]
    ELSE LET r == tx_trip_operation(db, TripOperation_CreateTrip(trip)) IN
         [db |-> r.tx, result |-> Ok(r.trip_id.some)]

update_trip(db, trip, fail) ==
    IF fail THEN [db |-> db, result |-> Err]
    ELSE [db |-> tx_trip_operation(db, TripOperation_UpdateTrip(trip)).tx,
          result |-> Ok(TRUE)]

\* The store and current_trip after handle_trip_update.
handle_trip_update(db, current_trip, status, distance, time_ms, fail) ==
    LET report_time == dirty_instant_to_systemtime(status.timestamp)
        should_create_new == IF current_trip # None
                             THEN ~Trip_is_active(current_trip.some, report_time)
                             ELSE TRUE
    IN IF should_create_new
       THEN LET new_trip == Trip_update(Trip_new(report_time, Trip_description(report_time)),
                                        report_time, distance, time_ms,
                                        status.engine_on, status.is_moored)
                r == insert_trip(db, new_trip, fail)
            IN IF r.result # Err
               THEN [db |-> r.db,
                     current_trip |-> Some([new_trip EXCEPT !.id = Some(r.result.ok)])]
               ELSE [db |-> db, current_trip |-> current_trip]
       ELSE LET trip == Trip_update(current_trip.some, report_time, distance, time_ms,
                                    status.engine_on, status.is_moored)
            IN [db |-> update_trip(db, trip, fail).db, current_trip |-> Some(trip)]

\* main's handle_vessel_status at instant t: the monitor, the locals and the
\* store afterwards, whether a vessel_status row was written, whether a
\* status due for the store was skipped for the time gate, and whether
\* generate_status returned a status.
main_handle_vessel_status(state, vessel_db, db, vm, tm, t, fail) ==
    LET g == generate_status(vm, t)
        idle == [vm |-> g.vm, state |-> state, db |-> db,
                 wrote |-> FALSE, blocked |-> FALSE, generated |-> g.status # None]
    IN
    IF g.status = None THEN idle
    ELSE
        LET status == g.status.some IN
        IF vessel_db /\ should_persist_to_db(state, t, status.is_moored)
        THEN
            IF is_valid_and_synced(tm)
            THEN
                LET position == get_effective_position(status)
                    delta == get_total_distance_and_time_from_last_report(
                                 status, state.last_vessel_status)
                    total_distance_nm == delta.distance_nm
                    total_time_ms == delta.time_ms
                    average_speed == IF total_time_ms > 0
                                     THEN (total_distance_nm * 1000000)
                                          \div (total_time_ms \div 1000)
                                     ELSE 0
                    max_speed == IF state.last_reported_max_speed > status.max_speed_kn
                                 THEN state.last_reported_max_speed
                                 ELSE status.max_speed_kn
                    state1 == [state EXCEPT !.last_reported_max_speed = max_speed]
                    status_operation ==
                        [time |-> status.timestamp,
                         latitude |-> position.latitude,
                         longitude |-> position.longitude,
                         average_speed |-> average_speed,
                         max_speed |-> max_speed,
                         is_moored |-> status.is_moored,
                         engine_on |-> status.engine_on,
                         total_distance_nm |-> total_distance_nm,
                         total_time_ms |-> total_time_ms]
                    r == insert_status(db, status_operation, fail = "status")
                IN IF r.result = Err
                   THEN [idle EXCEPT !.state = state1]
                   ELSE LET state2 == [mark_db_persisted(state1, t) EXCEPT
                                         !.last_vessel_status = Some(status),
                                         !.last_reported_max_speed = 0]
                            u == handle_trip_update(r.db, state2.current_trip, status,
                                                    total_distance_nm, total_time_ms,
                                                    fail = "trip")
                        IN [vm |-> g.vm,
                            state |-> [state2 EXCEPT !.current_trip = u.current_trip],
                            db |-> u.db, wrote |-> TRUE, blocked |-> FALSE,
                            generated |-> TRUE]
            ELSE [idle EXCEPT !.blocked = TRUE]
        ELSE idle

\* The loop over the metrics to persist: the monitor and the store
\* afterwards and the number of metrics handed to the store with success.
RECURSIVE persist_metrics(_, _, _, _, _, _)
persist_metrics(metrics, db, em, t, wall_now, fail) ==
    IF metrics = <<>> THEN [em |-> em, db |-> db, written |-> 0]
    ELSE
        LET metricid == Head(metrics)
            data == calculate_metric_data(em, metricid)
        IN IF data # None
           THEN LET r == insert_environmental_metrics(db, data.some, metricid,
                                                      wall_now, fail)
                IN IF r.result = Err
                   THEN persist_metrics(Tail(metrics), db, em, t, wall_now, fail)
                   ELSE LET rest == persist_metrics(
                                        Tail(metrics), r.db,
                                        cleanup_all_samples(
                                            mark_metric_persisted(em, metricid, t),
                                            metricid),
                                        t, wall_now, fail)
                        IN [rest EXCEPT !.written = @ + 1]
           ELSE persist_metrics(Tail(metrics), db, em, t, wall_now, fail)

\* main's handle_environment_status; blocked: metrics with data were due and
\* skipped for the time gate.
main_handle_environment_status(vessel_db, db, tm, em, t, wall_now, fail) ==
    LET idle == [em |-> em, db |-> db, written |-> 0, blocked |-> FALSE] IN
    IF vessel_db
    THEN LET metrics_to_persist == get_metrics_to_persist(em, t) IN
         IF metrics_to_persist # <<>>
         THEN IF is_valid_and_synced(tm)
              THEN LET r == persist_metrics(metrics_to_persist, db, em, t, wall_now, fail)
                   IN [em |-> r.em, db |-> r.db, written |-> r.written, blocked |-> FALSE]
              ELSE [idle EXCEPT !.blocked =
                      \E i \in 1..Len(metrics_to_persist) :
                          calculate_metric_data(em, metrics_to_persist[i]) # None]
         ELSE idle
    ELSE idle

\* Caps on the samples each buffer holds and on the rows of
\* environmental_data in the model of the loop.
MaxMainSamples == 1
MaxEnvRows == 2

\* Instants of the loop's iterations: an event interval apart.
MainClockTimes == {0, 10, 20}

\* What the wall clock is ahead of the time a System Time message carries:
\* nothing, the default threshold, and more than it.
MainSkews == {0, 500, 700}

\* The messages the loop reads while the wall clock reads wall_now.
MainMessages(wall_now) ==
    {N2kMessage("PositionRapidUpdate", Position(8, 6))}
    \cup {N2kMessage("NMEASystemTime", N2kDateTime(0, 10 * (wall_now - d))) : d \in MainSkews}
    \cup {N2kMessage("ActualPressure", [instance |-> 0, source |-> 0, pressure |-> 101300])}
    \cup {N2kMessage("VesselHeading", TRUE)}

\* Where the store fails during an iteration: nowhere, at the status row, at
\* the trip, or at the environmental rows.
MainFailures == {"none", "status", "trip", "env"}

\* Whether the monitor has seen a System Time message and the last one
\* measured a skew within the threshold.
SkewWithinThreshold(tm) ==
    tm.is_initialized /\ Abs(tm.last_measured_skew_ms) <= tm.time_skew_threshold_ms

\* What the last iteration did: its message, whether the skew was within
\* the threshold before it, whether it changed the rows of vessel_status or
\* environmental_data, and whether it, and the iteration before it,
\* skipped a due write for the time gate.
MnLast(op, message, tm_before, db_before, db_after, blocked, blocked_before, fed) ==
    [op |-> op, message |-> message, fed |-> fed,
     initialized_before |-> tm_before.is_initialized,
     within_before |-> SkewWithinThreshold(tm_before),
     row_written |-> \/ db_after.vessel_status # db_before.vessel_status
                     \/ db_after.environmental_data # db_before.environmental_data,
     blocked |-> blocked, blocked_before |-> blocked_before]

\* The samples the two monitors hold.
SamplesOf(vm, em) ==
    [positions |-> vm.positions, speeds |-> vm.speeds, winds |-> vm.winds,
     environment |-> em.samples]

\* What an iteration gave to the monitors: whether time was synchronised
\* after handle_message, the samples of the monitors before the iteration
\* and after handle_message, and whether generate_status was called and
\* returned a status.
MainFed(tm_after, vm_before, em_before, vm_after, em_after, status_generated) ==
    [synchronized_after |-> is_time_synchronized(tm_after),
     valid_and_synced_after |-> is_valid_and_synced(tm_after),
     samples_before |-> SamplesOf(vm_before, em_before),
     samples_after |-> SamplesOf(vm_after, em_after),
     status_generated |-> status_generated]

\* main up to its loop: the monitors are constructed, the store is
\* connected or not, and it holds no trip.
InitMainWith(vessel_db) ==
    /\ env_monitor = EnvironmentalMonitor_new(EnvironmentalConfig_default)
    /\ main = [vessel_db |-> vessel_db,
               state |-> VesselStatusState_new(VesselStatusConfig_default, 0)]
    /\ mn_last = MnLast("init", N2kMessage("VesselHeading", TRUE),
                        TimeMonitor_new(skew_threshold_default), Store_empty,
                        Store_empty, FALSE, FALSE,
                        MainFed(TimeMonitor_new(skew_threshold_default),
                                VesselMonitor_new,
                                EnvironmentalMonitor_new(EnvironmentalConfig_default),
                                VesselMonitor_new,
                                EnvironmentalMonitor_new(EnvironmentalConfig_default),
                                FALSE))

\* Time passes between two frames, on both clocks.
MainAdvanceClock(t) ==
    /\ t > now
    /\ now' = t
    /\ wall_ms' = wall_ms + (t - now) * 1000
    /\ mn_last' = [mn_last EXCEPT !.op = "clock"]
    /\ UNCHANGED <<time_monitor, tm_last, vessel_monitor, vm_last, env_monitor, main,
                   readerVars, handlerVars, statusVars, tripVars, envHandlerVars, cadenceVars, canVars, reconnectVars, healthVars, filterVars, configVars, speedVars, envBufferVars>>

\* The buffer the message goes to has room in the model.
BufferRoom(message) ==
    CASE message.kind = "PositionRapidUpdate" ->
            Len(vessel_monitor.positions) < MaxMainSamples
      [] message.kind = "ActualPressure" ->
            Len(env_monitor.samples["Pressure"]) < MaxMainSamples
      [] OTHER -> TRUE

\* One iteration of the loop for a frame that completes a message:
\* handle_message, handle_vessel_status, handle_environment_status.
MainLoopIteration(message, fail) ==
    /\ BufferRoom(message)
    /\ Len(store.vessel_status) < MaxRows
    /\ Len(store.environmental_data) < MaxEnvRows
    /\ \E h \in {handle_message(vessel_monitor, time_monitor, env_monitor,
                                 now, wall_ms, message)} :
       \E v \in {main_handle_vessel_status(main.state, main.vessel_db, store,
                                            h.vessel_monitor, h.time_monitor, now, fail)} :
       \E e \in {main_handle_environment_status(main.vessel_db, v.db, h.time_monitor,
                                                 h.env_monitor, now, wall_ms,
                                                 fail = "env")} :
          /\ time_monitor' = h.time_monitor
          /\ vessel_monitor' = v.vm
          /\ env_monitor' = e.em
          /\ main' = [main EXCEPT !.state = v.state]
          /\ store' = e.db
          /\ mn_last' = MnLast("iteration", message, time_monitor, store, e.db,
                               v.blocked \/ e.blocked, mn_last.blocked,
                               MainFed(h.time_monitor, vessel_monitor, env_monitor,
                                       h.vessel_monitor, h.env_monitor, v.generated))
    /\ UNCHANGED <<now, wall_ms, tm_last, vm_last, status_handler, hs_last, readerVars, statusVars, tripVars, envHandlerVars, cadenceVars, canVars, reconnectVars, healthVars, filterVars, configVars, speedVars, envBufferVars>>

NextMain ==
    \/ \E t \in MainClockTimes : MainAdvanceClock(t)
    \/ \E message \in MainMessages(wall_ms), fail \in MainFailures :
          MainLoopIteration(message, fail)

(***************************************************************************)
(* The read loop of main and open_can_socket_with_retry (main.rs)          *)
(*                                                                         *)
(* `can.socket` counts the sockets opened so far, `can.at` is where the    *)
(* loop stands: at socket.read_frame() or inside                           *)
(* open_can_socket_with_retry.                                             *)
(***************************************************************************)
notCan == <<timeVars, vesselVars, handlerVars, mainVars, statusVars, tripVars,
            envHandlerVars, cadenceVars, reconnectVars, healthVars, filterVars, configVars, speedVars, envBufferVars>>

\* Caps on the sockets opened and on the failed opens of one reconnect.
MaxSockets == 3
MaxOpenFailures == 2

\* std::thread::sleep(Duration::from_secs(10)) after a failed open.
open_retry_seconds == 10

\* What socket.read_frame() returns: a frame, or an io::Error of one of
\* these kinds (Other: any kind besides the two named).
ReadErrors == {"WouldBlock", "TimedOut", "Other"}

\* The match on the result of read_frame: where the loop goes next.
after_read(can_state, outcome) ==
    IF outcome = "Ok" THEN can_state
    ELSE [can_state EXCEPT !.at = "open", !.failed_opens = 0]

\* One pass of the loop in open_can_socket_with_retry: the state after
\* CanSocket::open returned, and the seconds slept.
open_attempt(can_state, opened) ==
    IF opened
    THEN [state |-> [can_state EXCEPT !.at = "read", !.socket = @ + 1], slept |-> 0]
    ELSE [state |-> [can_state EXCEPT !.failed_opens = @ + 1],
          slept |-> open_retry_seconds]

CanLast(op, outcome, before, slept) ==
    [op |-> op, outcome |-> outcome, before |-> before, slept |-> slept]

\* main has opened the interface and enters the loop.
InitCan ==
    /\ can = [socket |-> 1, at |-> "read", failed_opens |-> 0]
    /\ can_last = CanLast("init", "Ok", can, 0)

\* read_frame returns a frame that completes no message: it goes to the
\* reader and the loop reads again.
CanReadFrame(can_id, data) ==
    /\ can.at = "read"
    /\ LET r == process_frame(fast_packet_buffers, can_id, data) IN
        /\ r.ret = None
        /\ fast_packet_buffers' = r.bufs
        /\ rd_last' = RdLast("feed", can_id, data, r.ret)
    /\ can' = after_read(can, "Ok")
    /\ can_last' = CanLast("read", "Ok", can, 0)
    /\ UNCHANGED <<sender, notCan>>

\* read_frame returns an error.
CanReadError(kind) ==
    /\ can.at = "read"
    /\ can' = after_read(can, kind)
    /\ can_last' = CanLast("read", kind, can, 0)
    /\ UNCHANGED <<readerVars, notCan>>

\* CanSocket::open succeeds or fails inside open_can_socket_with_retry.
CanOpen(opened) ==
    /\ can.at = "open"
    /\ IF opened THEN can.socket < MaxSockets ELSE can.failed_opens < MaxOpenFailures
    /\ LET r == open_attempt(can, opened) IN
        /\ can' = r.state
        /\ can_last' = CanLast("open", IF opened THEN "Ok" ELSE "Err", can, r.slept)
    /\ UNCHANGED <<readerVars, notCan>>

NextCan ==
    \/ \E can_id \in CanIds, data \in FramesWith({17}) : CanReadFrame(can_id, data)
    \/ \E kind \in ReadErrors : CanReadError(kind)
    \/ \E opened \in BOOLEAN : CanOpen(opened)

(***************************************************************************)
(* VesselDatabase::reconnect_with_retry (db.rs)                            *)
(***************************************************************************)
notReconnect == <<readerVars, timeVars, vesselVars, handlerVars, mainVars, statusVars,
                  tripVars, envHandlerVars, cadenceVars, canVars, healthVars, filterVars, configVars, speedVars, envBufferVars>>

\* The calls of the function in one behaviour.
MaxReconnectCalls == 4

\* The values of max_retries; the health check passes 3.
RetryCounts == {0, 1, 2, 3, 7}

backoff_wait_FromTwo(attempt) == Min(2 ^ attempt, 30)

\* std::cmp::min(2_u64.pow(attempt - 1), 30)
backoff_wait(attempt) == Min(2 ^ (attempt - 1), 30)

\* One pass of the for loop: Self::new(db_url) succeeds or fails at the
\* attempt after `r.attempt`.
reconnect_attempt(r, connected) ==
    LET attempt == r.attempt + 1 IN
    IF connected
    THEN [r EXCEPT !.attempt = attempt, !.outcomes = Append(@, TRUE),
                   !.active = FALSE, !.result = Some("db")]
    ELSE [r EXCEPT !.attempt = attempt, !.outcomes = Append(@, FALSE),
                   !.waits = IF attempt < r.max_retries
                             THEN Append(@, backoff_wait(attempt)) ELSE @,
                   !.active = attempt < r.max_retries]

InitReconnect ==
    reconnect = [active |-> FALSE, max_retries |-> 0, attempt |-> 0, outcomes |-> <<>>,
                 waits |-> <<>>, result |-> None, calls |-> 0]

\* The function is called; with max_retries 0 the loop has no pass and the
\* function returns None at once.
ReconnectCall(max_retries) ==
    /\ ~reconnect.active
    /\ reconnect.calls < MaxReconnectCalls
    /\ reconnect' = [active |-> max_retries > 0, max_retries |-> max_retries,
                     attempt |-> 0, outcomes |-> <<>>, waits |-> <<>>,
                     result |-> None, calls |-> reconnect.calls + 1]
    /\ UNCHANGED notReconnect

ReconnectAttempt(connected) ==
    /\ reconnect.active
    /\ reconnect' = reconnect_attempt(reconnect, connected)
    /\ UNCHANGED notReconnect

NextReconnect ==
    \/ \E max_retries \in RetryCounts : ReconnectCall(max_retries)
    \/ \E connected \in BOOLEAN : ReconnectAttempt(connected)

(***************************************************************************)
(* HealthCheckManager (db.rs)                                              *)
(*                                                                         *)
(* `health.db` is the loop's Option<VesselDatabase>; the store answers a   *)
(* health check and accepts a connection exactly while `reachable`.        *)
(***************************************************************************)
notHealth == <<readerVars, timeVars, vesselVars, handlerVars, mainVars, statusVars,
               tripVars, envHandlerVars, cadenceVars, canVars, reconnectVars, filterVars, configVars, speedVars, envBufferVars>>

\* The interval the manager is constructed with.
check_interval == 60

\* The retries check_and_reconnect asks for.
health_max_retries == 3

\* reconnect_with_retry run to its return, attempt k meeting outcomes[k].
RECURSIVE reconnect_run(_, _)
reconnect_run(r, outcomes) ==
    IF ~r.active THEN r
    ELSE reconnect_run(reconnect_attempt(r, outcomes[r.attempt + 1]), outcomes)

reconnect_with_retry(outcomes, max_retries) ==
    reconnect_run([active |-> max_retries > 0, max_retries |-> max_retries,
                   attempt |-> 0, outcomes |-> <<>>, waits |-> <<>>,
                   result |-> None, calls |-> 0], outcomes)

HealthCheckManager_new(interval, t) == [last_check |-> t, check_interval |-> interval]

should_check_Never(manager, t) == FALSE

\* self.last_check.elapsed() >= self.check_interval
should_check(manager, t) == duration_since(t, manager.last_check) >= manager.check_interval

\* VesselDatabase::health_check: Ok while the store answers.
health_check(database, is_reachable) == is_reachable

\* check_and_reconnect at instant t: the handle and the manager afterwards,
\* the value returned, and the connection attempts made.
check_and_reconnect(manager, db, t, is_reachable) ==
    IF ~should_check(manager, t)
    THEN [manager |-> manager, db |-> db, did_check |-> FALSE, attempts |-> 0]
    ELSE LET reset == [manager EXCEPT !.last_check = t] IN
         IF db # None
         THEN IF health_check(db.some, is_reachable)
              THEN [manager |-> reset, db |-> db, did_check |-> TRUE, attempts |-> 0]
              ELSE LET r == reconnect_with_retry(
                                [k \in 1..health_max_retries |-> is_reachable],
                                health_max_retries)
                   IN [manager |-> reset, db |-> r.result, did_check |-> TRUE,
                       attempts |-> r.attempt]
         ELSE [manager |-> reset, db |-> db, did_check |-> FALSE, attempts |-> 0]

\* Instants around the health-check ticks.
HealthClockTimes == {0, 59, 60, 119, 120, 180, 240}

HcLast(op, t, is_reachable, db_before, due, r) ==
    [op |-> op, now |-> t, reachable |-> is_reachable, db_before |-> db_before,
     due |-> due, db_after |-> r.db, did_check |-> r.did_check, attempts |-> r.attempts]

\* main connects to the store, which is reachable or not, and constructs
\* the manager.
InitHealthWith(is_reachable) ==
    /\ reachable = is_reachable
    /\ health = [db |-> IF is_reachable THEN Some("db") ELSE None,
                 manager |-> HealthCheckManager_new(check_interval, 0)]
    /\ hc_last = HcLast("init", 0, is_reachable, health.db, FALSE,
                        [db |-> health.db, did_check |-> FALSE, attempts |-> 0])

InitHealth == InitHealthWith(TRUE)

\* The store goes away or comes back.
SetReachable(is_reachable) ==
    /\ reachable # is_reachable
    /\ reachable' = is_reachable
    /\ hc_last' = [hc_last EXCEPT !.op = "store"]
    /\ UNCHANGED <<health, now, vessel_monitor, vm_last, notHealth>>

\* The loop calls check_and_reconnect.
CheckAndReconnect ==
    /\ \E r \in {check_and_reconnect(health.manager, health.db, now, reachable)} :
          /\ health' = [db |-> r.db, manager |-> r.manager]
          /\ hc_last' = HcLast("check", now, reachable, health.db,
                               duration_since(now, health.manager.last_check)
                                   >= health.manager.check_interval, r)
    /\ UNCHANGED <<reachable, now, vessel_monitor, vm_last, notHealth>>

NextHealth ==
    \/ \E t \in HealthClockTimes : AdvanceClock(t)
    \/ \E is_reachable \in BOOLEAN : SetReachable(is_reachable)
    \/ CheckAndReconnect

(***************************************************************************)
(* The source filter (config.rs, frame_filter.rs) and its place in the     *)
(* loop (main.rs)                                                          *)
(*                                                                         *)
(* pgn_source_map is a function from the PGNs that have an entry to the    *)
(* allowed source.                                                         *)
(***************************************************************************)
notFilter == <<timeVars, vesselVars, handlerVars, mainVars, statusVars, tripVars,
               envHandlerVars, cadenceVars, canVars, reconnectVars, healthVars, configVars, speedVars, envBufferVars>>

should_accept_AnySource(pgn_source_map, pgn, source) == TRUE

should_accept(pgn_source_map, pgn, source) ==
    IF pgn \in DOMAIN pgn_source_map
    THEN source = pgn_source_map[pgn]
    ELSE TRUE

should_process_frame_by_id(pgn_source_map, can_id) ==
    should_accept(pgn_source_map, Identifier_pgn(can_id), Identifier_source(can_id))

\* main's filter_frame: TRUE for ControlFlow::Continue.
filter_frame(pgn_source_map, n2k_frame) ==
    should_accept(pgn_source_map, n2k_frame.pgn, n2k_frame.source)

\* The filters of the modelled configurations: none, one entry, two.
FilterMaps ==
    {<<>>, (129029 :> 22), (129029 :> 35), (129025 :> 22),
     (129029 :> 22) @@ (129025 :> 5)}

FilterPgns == {127488, 129025, 129029}
FilterSources == {5, 22, 35}

FltLast(op, pgn, source, accepted, bufs_before, bufs_after, decoded) ==
    [op |-> op, pgn |-> pgn, source |-> source, accepted |-> accepted,
     bufs_before |-> bufs_before, bufs_after |-> bufs_after, decoded |-> decoded]

InitFilterWith(pgn_source_map) ==
    /\ source_filter = pgn_source_map
    /\ flt_last = FltLast("init", 0, 0, TRUE, {}, {}, FALSE)

InitFilter == InitFilterWith(<<>>)

\* should_process_frame_by_id is asked about an identifier.
FilterQuery(can_id) ==
    /\ flt_last' = FltLast("query", Identifier_pgn(can_id), Identifier_source(can_id),
                           should_process_frame_by_id(source_filter, can_id),
                           fast_packet_buffers, fast_packet_buffers, FALSE)
    /\ UNCHANGED <<source_filter, readerVars, notFilter>>

\* One iteration of main's loop for a frame of PGN 129029: the reader
\* takes the frame, and a message it completes goes through filter_frame.
\* handle_message has no arm for a GNSS position message, and with the
\* clock at the instant of construction no status is due.
MainFilteredFrame(can_id, data) ==
    /\ Identifier_pgn(can_id) = 129029
    /\ \E r \in {process_frame(fast_packet_buffers, can_id, data)} :
          /\ fast_packet_buffers' = r.bufs
          /\ rd_last' = RdLast("feed", can_id, data, r.ret)
          /\ flt_last' = FltLast("frame", Identifier_pgn(can_id), Identifier_source(can_id),
                                 IF r.ret # None THEN filter_frame(source_filter, r.ret.some)
                                 ELSE TRUE,
                                 fast_packet_buffers, r.bufs, r.ret # None)
    /\ UNCHANGED <<source_filter, sender, notFilter>>

NextFilter ==
    \/ \E prio \in {2}, pgn \in FilterPgns, source \in FilterSources :
          FilterQuery(MakeCanId(prio, 1, pgn \div 256 - 256, pgn % 256, source))
    \/ \E can_id \in CanIds, data \in FramesWith({17}) : MainFilteredFrame(can_id, data)

(***************************************************************************)
(* Config::validate_and_fix (config.rs): the intervals                     *)
(***************************************************************************)
notConfig == <<readerVars, timeVars, vesselVars, handlerVars, mainVars, statusVars, tripVars,
               envHandlerVars, cadenceVars, canVars, reconnectVars, healthVars, filterVars, speedVars, envBufferVars>>

\* Config::validate_environmental_intervals: a period outside 30..600 s is
\* replaced by the default of its metric.
validate_environmental_intervals(periods) ==
    [m \in MetricIds |->
        IF periods[m] < 30 \/ periods[m] > 600
        THEN EnvironmentalConfig_default[m]
        ELSE periods[m]]

\* The two interval validations of Config::validate_and_fix.
validate_and_fix(c) ==
    [vessel_status |-> validate_vessel_status_intervals(c.vessel_status),
     environmental |-> validate_environmental_intervals(c.environmental)]

Config_default ==
    [vessel_status |-> VesselStatusConfig_default,
     environmental |-> EnvironmentalConfig_default]

\* Environmental periods as the configuration file may give them.
RawPeriods == {10, 30, 700}

CfgLast(op, raw) == [op |-> op, raw |-> raw]

\* Config::from_file has deserialized the file; validation is still to run.
InitConfigWith(raw) ==
    /\ loaded_config = raw
    /\ cfg_last = CfgLast("from_file", raw)

InitConfig == InitConfigWith(Config_default)

\* Config::validate_and_fix.
ValidateAndFix ==
    /\ cfg_last.op = "from_file"
    /\ loaded_config' = validate_and_fix(loaded_config)
    /\ cfg_last' = CfgLast("validated", loaded_config)
    /\ UNCHANGED notConfig

NextConfig == ValidateAndFix

(***************************************************************************)
(* The statuses handed over between two persisted rows                     *)
(***************************************************************************)
\* Nothing handed over since the previous persisted row.
NoneSeen == [max |-> 0, why |-> {}, generated_max |-> 0, unpersisted |-> {}]

\* generated_max is the largest max_speed_kn of the statuses handed over
\* since the previous persisted row, the status just handled included;
\* unpersisted tells why the earlier ones of them were not written
\* ("cadence" or "failed"); max and why are what the next status inherits.
SeenWith(seen, status, result) ==
    LET generated_max == IF seen.max > status.max_speed_kn THEN seen.max
                         ELSE status.max_speed_kn IN
    [max |-> IF result = Ok(TRUE) THEN 0 ELSE generated_max,
     why |-> IF result = Ok(TRUE) THEN {}
             ELSE seen.why \cup {IF result = Err THEN "failed" ELSE "cadence"},
     generated_max |-> generated_max,
     unpersisted |-> seen.why]

InitSpeedSeen == speed_seen = NoneSeen

\* A status is handed to the handler, the store handle being there; the
\* store call fails at `fail`.
HandleSeenStatus(status, fail) ==
    /\ Len(store.vessel_status) < MaxRows
    /\ fail # "none" => hs_last.failures < MaxFailures
    /\ \E r \in {handle_vessel_status(status_handler, TRUE, store, status, now, fail)} :
        /\ status_handler' = r.state
        /\ store' = r.db
        /\ hs_last' = HsLast("handle", now, status, TRUE, status_handler, store,
                             r, hs_last.last_persist, hs_last.failures)
        /\ speed_seen' = SeenWith(speed_seen, status, r.result)
    /\ UNCHANGED <<vesselVars, readerVars, timeVars, mainVars, statusVars, tripVars,
                   envHandlerVars, cadenceVars, canVars, reconnectVars, healthVars,
                   filterVars, configVars, envBufferVars>>

NextMaxSpeed ==
    \/ \E t \in HandlerClockTimes : AdvanceClock(t)
    \/ \E status \in StatusesAt(now), fail \in StoreFailures : HandleSeenStatus(status, fail)

(***************************************************************************)
(* The sample buffers of the environmental monitor under its messages      *)
(***************************************************************************)
\* Cap on the samples the seven buffers hold together in the model.
MaxEnvBufferSamples == 4

SamplesHeld(em) ==
    Len(em.samples["Pressure"]) + Len(em.samples["CabinTemp"])
    + Len(em.samples["WaterTemp"]) + Len(em.samples["Humidity"])
    + Len(em.samples["WindSpeed"]) + Len(em.samples["WindDir"])
    + Len(em.samples["Roll"])

\* Instants around the age the buffers keep: SAMPLE_INTERVAL + 10 s.
EnvBufferClockTimes == {0, 70, 71, 142}

\* One message for each of the seven buffers, and an attitude message
\* without roll.
EnvBufferMessages ==
    {N2kMessage("ActualPressure", [instance |-> 0, source |-> 0, pressure |-> 101300]),
     N2kMessage("Temperature", [instance |-> 0, source |-> 4, temperature |-> 29315]),
     N2kMessage("Temperature", [instance |-> 0, source |-> 0, temperature |-> 28815]),
     N2kMessage("Humidity", [actual_humidity |-> 55]),
     N2kMessage("WindData", [speed |-> 5, angle |-> 10000]),
     N2kMessage("Attitude", [roll |-> Some(1000)]),
     N2kMessage("Attitude", [roll |-> None])}

\* The buffers a message is pushed to.
EnvBuffersOf(message) ==
    CASE message.kind = "ActualPressure" -> {"Pressure"}
      [] message.kind = "Temperature" ->
            IF message.body.source = 4 THEN {"CabinTemp"} ELSE {"WaterTemp"}
      [] message.kind = "Humidity" -> {"Humidity"}
      [] message.kind = "WindData" -> {"WindSpeed", "WindDir"}
      [] message.kind = "Attitude" ->
            IF message.body.roll = None THEN {} ELSE {"Roll"}

EmLast(op, message, t, before, after) ==
    [op |-> op, message |-> message, now |-> t, before |-> before, after |-> after]

InitEnvBuffers ==
    em_last = EmLast("init", N2kMessage("Attitude", [roll |-> None]), 0,
                     EnvironmentalMonitor_new(EnvironmentalConfig_default),
                     EnvironmentalMonitor_new(EnvironmentalConfig_default))

\* handle_message with a message of the environmental monitor.
EnvIngest(message) ==
    /\ SamplesHeld(env_monitor) + Cardinality(EnvBuffersOf(message)) <= MaxEnvBufferSamples
    /\ \E h \in {handle_message(vessel_monitor, time_monitor, env_monitor,
                                 now, wall_ms, message)} :
          /\ env_monitor' = h.env_monitor
          /\ em_last' = EmLast("ingest", message, now, env_monitor, h.env_monitor)
    /\ UNCHANGED <<main, mn_last, readerVars, timeVars, vesselVars, handlerVars,
                   statusVars, tripVars, envHandlerVars, cadenceVars, canVars,
                   reconnectVars, healthVars, filterVars, configVars, speedVars>>

NextEnvBuffers ==
    \/ \E t \in EnvBufferClockTimes : AdvanceClock(t)
    \/ \E message \in EnvBufferMessages : EnvIngest(message)

(***************************************************************************)
(* Specifications                                                          *)
(***************************************************************************)
\* The state after main has constructed the components.
Init ==
    /\ InitReader
    /\ InitTimeWith(skew_threshold_default)
    /\ InitVesselMonitor
    /\ InitHandlerWith(FALSE)
    /\ InitMainWith(TRUE)
    /\ InitStatusCalls
    /\ InitTripUpdates
    /\ InitEnvHandler
    /\ InitIdleCadence
    /\ InitCan
    /\ InitReconnect
    /\ InitEnvBuffers
    /\ InitSpeedSeen
    /\ InitConfig
    /\ InitFilter
    /\ InitHealth

InitAnyThreshold ==
    /\ InitReader
    /\ \E t \in SkewThresholds : InitTimeWith(t)
    /\ InitVesselMonitor
    /\ InitHandlerWith(FALSE)
    /\ InitMainWith(TRUE)
    /\ InitStatusCalls
    /\ InitTripUpdates
    /\ InitEnvHandler
    /\ InitIdleCadence
    /\ InitCan
    /\ InitReconnect
    /\ InitEnvBuffers
    /\ InitSpeedSeen
    /\ InitConfig
    /\ InitFilter
    /\ InitHealth

InitAnyStore ==
    /\ InitReader
    /\ InitTimeWith(skew_threshold_default)
    /\ InitVesselMonitor
    /\ \E loaded \in BOOLEAN : InitHandlerWith(loaded)
    /\ InitMainWith(TRUE)
    /\ InitStatusCalls
    /\ InitTripUpdates
    /\ InitEnvHandler
    /\ InitIdleCadence
    /\ InitCan
    /\ InitReconnect
    /\ InitEnvBuffers
    /\ InitSpeedSeen
    /\ InitConfig
    /\ InitFilter
    /\ InitHealth

InitAnyDb ==
    /\ InitReader
    /\ InitTimeWith(skew_threshold_default)
    /\ InitVesselMonitor
    /\ InitHandlerWith(FALSE)
    /\ \E vessel_db \in BOOLEAN : InitMainWith(vessel_db)
    /\ InitStatusCalls
    /\ InitTripUpdates
    /\ InitEnvHandler
    /\ InitIdleCadence
    /\ InitCan
    /\ InitReconnect
    /\ InitEnvBuffers
    /\ InitSpeedSeen
    /\ InitConfig
    /\ InitFilter
    /\ InitHealth

SpecReader == Init /\ [][NextReader]_vars

SpecRoundTrip == Init /\ [][NextRoundTrip]_vars

SpecTime == InitAnyThreshold /\ [][NextTime]_vars

SpecSpeed == Init /\ [][NextSpeed]_vars

SpecPosition == Init /\ [][NextPosition]_vars

SpecHandler == InitAnyStore /\ [][NextHandler]_vars

SpecMaxSpeed == InitAnyStore /\ [][NextMaxSpeed]_vars

SpecMain == InitAnyDb /\ [][NextMain]_vars

SpecStatus == Init /\ [][NextStatus]_vars

InitAnyTrip ==
    /\ InitReader
    /\ InitTimeWith(skew_threshold_default)
    /\ InitVesselMonitor
    /\ \E last_trip \in {None, Some(PreviousTrip), Some(RecentTrip)} :
          InitHandlerLoading(last_trip)
    /\ InitMainWith(TRUE)
    /\ InitStatusCalls
    /\ InitTripUpdates
    /\ InitEnvHandler
    /\ InitIdleCadence
    /\ InitCan
    /\ InitReconnect
    /\ InitEnvBuffers
    /\ InitSpeedSeen
    /\ InitConfig
    /\ InitFilter
    /\ InitHealth

SpecTrip == InitAnyTrip /\ [][NextTrip]_vars

SpecTripUpdate == Init /\ [][NextTripUpdate]_vars

SpecEnvHandler == Init /\ [][NextEnvHandler]_vars

SpecEnvBuffers == Init /\ [][NextEnvBuffers]_vars

SpecBuffers == Init /\ [][NextBuffers]_vars

SpecGnss == Init /\ [][NextGnss]_vars

SpecCan == Init /\ [][NextCan]_vars

SpecReconnect == Init /\ [][NextReconnect]_vars

InitAnyReachability ==
    /\ InitReader
    /\ InitTimeWith(skew_threshold_default)
    /\ InitVesselMonitor
    /\ InitHandlerWith(FALSE)
    /\ InitMainWith(TRUE)
    /\ InitStatusCalls
    /\ InitTripUpdates
    /\ InitEnvHandler
    /\ InitIdleCadence
    /\ InitCan
    /\ InitReconnect
    /\ InitEnvBuffers
    /\ InitSpeedSeen
    /\ InitConfig
    /\ InitFilter
    /\ \E is_reachable \in BOOLEAN : InitHealthWith(is_reachable)

SpecHealth == InitAnyReachability /\ [][NextHealth]_vars

InitAnyFilter ==
    /\ InitReader
    /\ InitTimeWith(skew_threshold_default)
    /\ InitVesselMonitor
    /\ InitHandlerWith(FALSE)
    /\ InitMainWith(TRUE)
    /\ InitStatusCalls
    /\ InitTripUpdates
    /\ InitEnvHandler
    /\ InitIdleCadence
    /\ InitCan
    /\ InitReconnect
    /\ InitEnvBuffers
    /\ InitSpeedSeen
    /\ InitConfig
    /\ \E pgn_source_map \in FilterMaps : InitFilterWith(pgn_source_map)
    /\ InitHealth

SpecFilter == InitAnyFilter /\ [][NextFilter]_vars

InitAnyRawConfig ==
    /\ InitReader
    /\ InitTimeWith(skew_threshold_default)
    /\ InitVesselMonitor
    /\ InitHandlerWith(FALSE)
    /\ InitMainWith(TRUE)
    /\ InitStatusCalls
    /\ InitTripUpdates
    /\ InitEnvHandler
    /\ InitIdleCadence
    /\ InitCan
    /\ InitReconnect
    /\ InitEnvBuffers
    /\ InitSpeedSeen
    /\ InitFilter
    /\ InitHealth
    /\ \E moored, underway \in RawIntervals, periods \in [MetricIds -> RawPeriods] :
          InitConfigWith([vessel_status |-> [interval_moored |-> moored,
                                             interval_underway |-> underway],
                          environmental |-> periods])

SpecConfig == InitAnyRawConfig /\ [][NextConfig]_vars

InitAnyConfig ==
    /\ InitReader
    /\ InitTimeWith(skew_threshold_default)
    /\ InitVesselMonitor
    /\ InitCadence
    /\ InitMainWith(TRUE)
    /\ InitStatusCalls
    /\ InitTripUpdates
    /\ InitEnvHandler
    /\ InitCan
    /\ InitReconnect
    /\ InitEnvBuffers
    /\ InitSpeedSeen
    /\ InitConfig
    /\ InitFilter
    /\ InitHealth

SpecCadence == InitAnyConfig /\ [][NextCadence]_vars

(***************************************************************************)
(* Properties of the reassembler                                           *)
(***************************************************************************)
IsFastFrame(can_id, data) ==
    is_fast_packet_pgn(Identifier_pgn(can_id)) /\ Len(data) = 8

\* C4: the reassembler holds at most one live fast-packet buffer for each
\* (pgn, source), and every buffer it holds belongs to a sequence that has
\* started (its first entry is the 6 payload bytes of a first frame) and
\* has not completed yet.
C4_OneLiveBufferPerKey ==
    /\ \A e1, e2 \in fast_packet_buffers : e1.key = e2.key => e1 = e2
    /\ \A e \in fast_packet_buffers :
        /\ Len(e.buf.frames) >= 1
        /\ Len(e.buf.frames[1]) = FirstFramePayload
        /\ ~is_complete(e.buf)

\* Two keys have a sequence in flight, one of them two frames long, right
\* after a frame that completed nothing.
C4_Witness ==
    /\ Cardinality(fast_packet_buffers) = 2
    /\ \E e \in fast_packet_buffers : Len(e.buf.frames) = 2
    /\ rd_last.op = "feed" /\ rd_last.ret = None

\* C5: when a device splits a payload into one first frame and follow-on
\* frames and they are fed in order, process_frame returns None for every
\* frame but the last, and for the last returns one fast-packet N2kFrame of
\* the device's pgn and source whose data is the payload; frames of other
\* keys may come in between.
C5_RoundTrip ==
    rd_last.op = "send" =>
        IF sender.active
        THEN rd_last.ret = None
        ELSE rd_last.ret = Some([pgn |-> Identifier_pgn(SenderId),
                                 source |-> Identifier_source(SenderId),
                                 is_fast_packet |-> TRUE,
                                 data |-> sender.payload])

\* The longest payload has just been returned by the last of its frames
\* while a sequence of another key is still in flight.
C5_Witness ==
    /\ rd_last.op = "send" /\ ~sender.active
    /\ Len(sender.payload) = MaxPayloadLen
    /\ sender.sent = 1 + MaxFollowOn
    /\ rd_last.ret # None
    /\ \E e \in fast_packet_buffers : e.key # KeyOf(SenderId)

\* C6: after a first frame (frame counter 0) of a fast-packet PGN, whatever
\* total length it declares, no buffer of an earlier sequence remains live
\* for its key: the key has no buffer, or the buffer holds this frame only.
C6_FirstFrameDiscardsEarlier ==
    (rd_last.op = "feed" /\ IsFastFrame(rd_last.can_id, rd_last.data)
        /\ FastPacket_is_first(rd_last.data)) =>
        \A e \in fast_packet_buffers :
            e.key = KeyOf(rd_last.can_id) =>
                /\ e.buf.total_len = rd_last.data[2]
                /\ e.buf.frames = <<FastPacket_data(rd_last.data)>>

(***************************************************************************)
(* Properties of the time monitor                                          *)
(***************************************************************************)
\* The skew the last System Time message measured: wall clock minus the
\* time the message carries.
MeasuredSkew == tm_last.now - to_system_time(tm_last.msg)

\* C7: in every reachable state, after any System Time messages (aborted
\* ones included) and other messages, is_valid_and_synced() implies
\* |last_measured_skew_ms| <= skew_threshold_ms.
C7_SyncedImpliesSkewWithinThreshold ==
    is_valid_and_synced(time_monitor) =>
        Abs(time_monitor.last_measured_skew_ms) <= time_monitor.time_skew_threshold_ms

\* The monitor is synced on a negative skew at the threshold, and the last
\* System Time message was aborted because the wall clock is before the
\* epoch.
C7_Witness ==
    /\ is_valid_and_synced(time_monitor)
    /\ time_monitor.last_measured_skew_ms = -time_monitor.time_skew_threshold_ms
    /\ tm_last.op = "system_time" /\ tm_last.now < 0

\* C8: after process_system_time handles a message with measured skew s
\* while the wall clock is at or after the epoch, the monitor is
\* initialised, last_measured_skew_ms = s, and it is Skewed if
\* |s| > skew_threshold_ms and Synchronized otherwise, whatever its state
\* before and whether or not a warning was printed.
C8_PostStateOfSystemTime ==
    (tm_last.op = "system_time" /\ tm_last.now >= 0) =>
        /\ time_monitor.is_initialized
        /\ time_monitor.last_measured_skew_ms = MeasuredSkew
        /\ time_monitor.has_time_skew =
               (Abs(MeasuredSkew) > time_monitor.time_skew_threshold_ms)
        /\ is_valid_and_synced(time_monitor) =
               (Abs(MeasuredSkew) <= time_monitor.time_skew_threshold_ms)

\* A Skewed monitor has just returned to Synchronized on a message whose
\* skew is exactly the threshold.
C8_Witness ==
    /\ tm_last.op = "system_time" /\ tm_last.now >= 0
    /\ tm_last.before.is_initialized /\ tm_last.before.has_time_skew
    /\ Abs(MeasuredSkew) = time_monitor.time_skew_threshold_ms
    /\ is_valid_and_synced(time_monitor)

\* A message that keeps the monitor Skewed inside the warning cooldown: no
\* warning is printed and the skew is still recorded.
C8_WitnessNoWarning ==
    /\ tm_last.op = "system_time" /\ tm_last.now >= 0
    /\ tm_last.before.has_time_skew /\ time_monitor.has_time_skew
    /\ ~tm_last.warned
    /\ time_monitor.last_measured_skew_ms # tm_last.before.last_measured_skew_ms

(***************************************************************************)
(* Properties of the vessel monitor's noise filters                        *)
(***************************************************************************)
\* 25.0 kn in units of 1e-7 kn.
Kn25 == 25 * 10000000

\* C10: after any sequence of COG/SOG messages every sample in the speed
\* buffer has sog_knots <= 25.0; a message with SOG at most 25.0 kn (25.0
\* exactly included) is stored as the newest sample, one above 25.0 kn
\* leaves the speed buffer unchanged.
C10_SpeedsAtMost25Knots ==
    /\ \A i \in 1..Len(vessel_monitor.speeds) :
           vessel_monitor.speeds[i].speed_kn <= Kn25
    /\ vm_last.op = "cog_sog" =>
           IF sog_knots(vm_last.msg) > Kn25
           THEN vessel_monitor.speeds = vm_last.before.speeds
           ELSE /\ vessel_monitor.speeds # <<>>
                /\ vessel_monitor.speeds[Len(vessel_monitor.speeds)] =
                       [speed_kn |-> sog_knots(vm_last.msg), timestamp |-> vm_last.now]

\* A message with SOG exactly 25.0 kn has just been stored behind an
\* earlier sample.
C10_Witness ==
    /\ vm_last.op = "cog_sog"
    /\ sog_knots(vm_last.msg) = Kn25
    /\ Len(vessel_monitor.speeds) >= 2
    /\ vessel_monitor.speeds[Len(vessel_monitor.speeds)].speed_kn = Kn25

\* The buffered samples not older than POSITION_VALIDATION_WINDOW when the
\* last position message arrived.
WindowBefore ==
    SelectSeq(vm_last.before.positions,
              LAMBDA s : s.timestamp >= vm_last.now - POSITION_VALIDATION_WINDOW)

WindowPositions == [i \in 1..Len(WindowBefore) |-> WindowBefore[i].position]

\* The last position message lies at most 100 m from the component-wise
\* median of the window.
NearWindowMedian ==
    distance_sq_cm(vm_last.msg, calculate_median_position(WindowPositions))
        <= 10000 * 10000

PositionAccepted ==
    vessel_monitor.positions =
        pop_front_older(Append(vm_last.before.positions,
                               [position |-> vm_last.msg, timestamp |-> vm_last.now]),
                        vm_last.now - 150)

PositionRejected == vessel_monitor.positions = vm_last.before.positions

StoreCalled == hs_last.op = "handle" /\ hs_last.called # None

LastTripOperation == hs_last.called.some.trip_operation

LastStatusOperation == hs_last.called.some.status_operation

\* The store holds the status row of the last call on top of the rows it
\* held before.
StatusRowCommitted ==
    store.vessel_status = Append(hs_last.db_before.vessel_status, LastStatusOperation)

\* The store holds the trip of the last call: as a new row for CreateTrip,
\* in the row of its id for UpdateTrip.
TripCommitted ==
    IF LastTripOperation.kind = "CreateTrip"
    THEN /\ Len(store.trips) = Len(hs_last.db_before.trips) + 1
         /\ store.trips[Len(store.trips)] =
               [LastTripOperation.trip EXCEPT !.id = Some(Len(store.trips))]
         /\ SubSeq(store.trips, 1, Len(store.trips) - 1) = hs_last.db_before.trips
    ELSE /\ Len(store.trips) = Len(hs_last.db_before.trips)
         /\ \E i \in 1..Len(store.trips) :
               /\ store.trips[i].id = LastTripOperation.trip.id
               /\ store.trips[i].end_timestamp = LastTripOperation.trip.end_timestamp
               /\ store.trips[i].total_distance_sailed = LastTripOperation.trip.total_distance_sailed
               /\ store.trips[i].total_distance_motoring = LastTripOperation.trip.total_distance_motoring
               /\ store.trips[i].total_time_sailing = LastTripOperation.trip.total_time_sailing
               /\ store.trips[i].total_time_motoring = LastTripOperation.trip.total_time_motoring
               /\ store.trips[i].total_time_moored = LastTripOperation.trip.total_time_moored
               /\ \A j \in 1..Len(store.trips) :
                     j # i => store.trips[j] = hs_last.db_before.trips[j]

\* C2: after a call of insert_status_and_trip with a CreateTrip or
\* UpdateTrip operation the store holds both the vessel_status row and the
\* trip insert/update of that call, or neither; a call that fails leaves
\* no vessel_status row.
C2_StatusAndTripBothOrNeither ==
    (StoreCalled /\ LastTripOperation.kind \in {"CreateTrip", "UpdateTrip"}) =>
        /\ \/ store = hs_last.db_before
           \/ StatusRowCommitted /\ TripCommitted
        /\ hs_last.result = Err => store.vessel_status = hs_last.db_before.vessel_status

\* C3: a status whose vessel_status row is persisted is the first persisted
\* since the handler was constructed, or arrives at least interval_moored
\* (a moored status) or interval_underway (any other) after the previous
\* successful persist; a status arriving earlier is not written.
C3_PersistedAtCadence ==
    hs_last.op = "handle" =>
        LET interval == IF hs_last.status.is_moored THEN interval_moored_seconds
                        ELSE interval_underway_seconds
            written == store.vessel_status # hs_last.db_before.vessel_status
            early == /\ hs_last.prev_persist # None
                     /\ hs_last.now - hs_last.prev_persist.some < interval
        IN /\ written => ~early
           /\ written <=> hs_last.result = Ok(TRUE)
           /\ written => hs_last.last_persist = Some(hs_last.now)

\* A moored status is persisted exactly interval_moored after the previous
\* persist; an attempt in between failed.
C3_Witness ==
    /\ hs_last.op = "handle" /\ hs_last.status.is_moored
    /\ hs_last.result = Ok(TRUE)
    /\ hs_last.prev_persist # None
    /\ hs_last.now - hs_last.prev_persist.some = interval_moored_seconds
    /\ hs_last.failures > 0
    /\ Len(store.vessel_status) = 2

\* A status that is due with the store at hand is not written when it
\* arrives before the interval: an underway status 29 s after a persist.
C3_WitnessEarly ==
    /\ hs_last.op = "handle" /\ hs_last.has_db /\ ~hs_last.status.is_moored
    /\ hs_last.prev_persist # None
    /\ hs_last.now - hs_last.prev_persist.some = interval_underway_seconds - 1
    /\ hs_last.result = Ok(FALSE)

(***************************************************************************)
(* The time gate of the main loop                                          *)
(***************************************************************************)
\* The last iteration of the loop added or replaced a row of vessel_status
\* or of environmental_data.
RowWritten == mn_last.op = "iteration" /\ mn_last.row_written

C1_WitnessNeverInitialised ==
    /\ mn_last.op = "iteration"
    /\ mn_last.blocked
    /\ ~time_monitor.is_initialized

\* The same for a vessel_status row: the status generated in the iteration
\* of the System Time message is written, with its trip.
C1_WitnessVesselStatus ==
    /\ RowWritten
    /\ mn_last.blocked_before
    /\ ~mn_last.within_before
    /\ Len(store.vessel_status) = 1
    /\ Len(store.trips) = 1

(***************************************************************************)
(* The statuses the vessel monitor emits                                   *)
(***************************************************************************)
\* The last call of generate_status returned a status.
StatusEmitted == gs_last.op = "generate_status" /\ gs_last.status # None

\* The positions the monitor held at that call that are not older than
\* `cutoff`.
BufferedSince(cutoff) ==
    LET kept == SelectSeq(gs_last.before.positions, LAMBDA p : p.timestamp >= cutoff)
    IN [i \in 1..Len(kept) |-> kept[i].position]

\* The positions of the mooring detection window at that call.
MooringWindow == BufferedSince(gs_last.now - MOORING_DETECTION_WINDOW)

\* The positions of the window within 30 m of the window's arithmetic mean:
\* with n positions, n times the position is compared with their sum, in
\* quarters of a cm (278 to the grid step).
NearMeanOfWindow ==
    LET n == Len(MooringWindow)
        sum_lat == sum_latitude(MooringWindow)
        sum_lon == sum_longitude(MooringWindow)
    IN {i \in 1..n :
          LET dlat == n * MooringWindow[i].latitude - sum_lat
              dlon == n * MooringWindow[i].longitude - sum_lon
          IN (dlat * dlat + dlon * dlon) * 278 * 278 <= (30 * 25 * n) * (30 * 25 * n)}

\* C11: whenever an emitted status has is_moored = TRUE, at least 90% of
\* the buffered positions of the last 120 s lie within 30 m of the mean of
\* those positions.
C11_MooredMeansNinetyPercentNearMean ==
    (StatusEmitted /\ gs_last.status.some.is_moored) =>
        10 * Cardinality(NearMeanOfWindow) >= 9 * Len(MooringWindow)

\* C12: an emitted status is not moored when the 120 s window holds fewer
\* than 2 positions, whatever older positions the buffer holds.
C12_NotMooredWithFewerThanTwoInWindow ==
    (StatusEmitted /\ Len(MooringWindow) < 2) => ~gs_last.status.some.is_moored

\* C19: generate_status returns a status only if at least EVENT_INTERVAL has
\* elapsed since last_event_time and the buffer holds a position; it then
\* sets last_event_time to now, and the status emitted before it is at
\* least EVENT_INTERVAL older; when it returns None the monitor is unchanged.
C19_StatusOnlyAfterEventInterval ==
    gs_last.op = "generate_status" =>
        IF gs_last.status # None
        THEN /\ gs_last.now - gs_last.before.last_event_time >= 10
             /\ gs_last.before.positions # <<>>
             /\ gs_last.after = [gs_last.before EXCEPT !.last_event_time = gs_last.now]
             /\ gs_last.previous_emission # None =>
                   gs_last.now - gs_last.previous_emission.some >= 10
        ELSE gs_last.after = gs_last.before

\* A second status is emitted exactly EVENT_INTERVAL after the first.
C19_Witness ==
    /\ StatusEmitted
    /\ gs_last.previous_emission # None
    /\ gs_last.now - gs_last.previous_emission.some = 10

\* A call returns None for an empty buffer although the interval elapsed.
C19_WitnessNone ==
    /\ gs_last.op = "generate_status"
    /\ gs_last.status = None
    /\ gs_last.now - gs_last.before.last_event_time >= 10

\* C20: in an emitted status number_of_samples is the number of buffered
\* positions with a timestamp at or after the previous last_event_time and
\* average_position is the mean of those positions, None when there are
\* none.
C20_AverageOverPositionsSinceLastEvent ==
    StatusEmitted =>
        LET since == BufferedSince(gs_last.before.last_event_time)
            n == Len(since)
        IN /\ gs_last.status.some.number_of_samples = n
           /\ gs_last.status.some.average_position =
                 IF n = 0 THEN None
                 ELSE Some(Position(sum_latitude(since) \div n, sum_longitude(since) \div n))

(***************************************************************************)
(* The trip operations of the status handler                               *)
(***************************************************************************)
\* The trip the handler held before the last call, and the time of the
\* status of that call as the trip's timestamps count it (ms).
TripBefore == hs_last.state_before.current_trip

StatusTimeMs == hs_last.status.timestamp * 1000

\* The trip holds exactly the delta of the status of the last call, in the
\* bucket of the status.
HoldsTickDelta(trip) ==
    LET d == LastStatusOperation.total_distance_nm
        ms == LastStatusOperation.total_time_ms
        moored == hs_last.status.is_moored
        engine == hs_last.status.engine_on
    IN /\ trip.total_time_moored = (IF moored THEN ms ELSE 0)
       /\ trip.total_time_motoring = (IF ~moored /\ engine THEN ms ELSE 0)
       /\ trip.total_distance_motoring = (IF ~moored /\ engine THEN d ELSE 0)
       /\ trip.total_time_sailing = (IF ~moored /\ ~engine THEN ms ELSE 0)
       /\ trip.total_distance_sailed = (IF ~moored /\ ~engine THEN d ELSE 0)

\* C13: on each persist the handler issues CreateTrip if it has no current
\* trip or the status time is more than 24 h away from the current trip's
\* end_timestamp, and UpdateTrip of the current trip otherwise; a created
\* trip starts at the status timestamp and holds the delta of that tick.
C13_CreateTripAfterMoreThanADay ==
    StoreCalled =>
        IF \/ TripBefore = None
           \/ Abs(StatusTimeMs - TripBefore.some.end_timestamp) > 24 * 60 * 60 * 1000
        THEN /\ LastTripOperation.kind = "CreateTrip"
             /\ LastTripOperation.trip.id = None
             /\ LastTripOperation.trip.start_timestamp = StatusTimeMs
             /\ LastTripOperation.trip.end_timestamp = StatusTimeMs
             /\ HoldsTickDelta(LastTripOperation.trip)
        ELSE /\ LastTripOperation.kind = "UpdateTrip"
             /\ LastTripOperation.trip.id = TripBefore.some.id
             /\ LastTripOperation.trip.start_timestamp = TripBefore.some.start_timestamp
             /\ LastTripOperation.trip.end_timestamp = StatusTimeMs

(***************************************************************************)
(* Properties of Trip::update                                              *)
(***************************************************************************)
\* The fields of a trip that Trip::update may change, in the order
\* distance sailed, distance motoring, time sailing, time motoring, time
\* moored.
TripBuckets(trip) ==
    <<trip.total_distance_sailed, trip.total_distance_motoring,
      trip.total_time_sailing, trip.total_time_motoring, trip.total_time_moored>>

\* C14: Trip::update(end, d, t, engine_on, is_moored) sets end_timestamp to
\* end and adds to one bucket only: t to the moored time when moored (d is
\* dropped), else d and t to the motoring totals when the engine is on, else
\* to the sailing totals; so total_time() is the sum of every t and
\* total_distance() the sum of d over the updates that were not moored.
C14_UpdateFillsOneBucket ==
    trip_last.op = "update" =>
        LET b == TripBuckets(trip_last.before)
            d == trip_last.distance
            t == trip_last.time_ms
        IN /\ one_trip.end_timestamp = trip_last.end_timestamp
           /\ one_trip.id = trip_last.before.id
           /\ one_trip.description = trip_last.before.description
           /\ one_trip.start_timestamp = trip_last.before.start_timestamp
           /\ TripBuckets(one_trip) =
                 IF trip_last.is_moored
                 THEN <<b[1], b[2], b[3], b[4], b[5] + t>>
                 ELSE IF trip_last.engine_on
                 THEN <<b[1], b[2] + d, b[3], b[4] + t, b[5]>>
                 ELSE <<b[1] + d, b[2], b[3] + t, b[4], b[5]>>
           /\ Trip_total_time(one_trip) = trip_last.sum_time
           /\ Trip_total_distance(one_trip) = trip_last.sum_distance

\* A moored update with a distance, after a sailing and a motoring update
\* that both moved the trip.
C14_Witness ==
    /\ trip_last.op = "update"
    /\ trip_last.is_moored /\ trip_last.distance > 0
    /\ trip_last.before.total_distance_sailed > 0
    /\ trip_last.before.total_distance_motoring > 0
    /\ one_trip.end_timestamp # trip_last.before.end_timestamp

\* C15: every UpdateTrip the handler hands to the store carries the id of a
\* trip row the store has committed; none is issued for a trip whose id is
\* still None.
C15_UpdateTripCarriesCommittedId ==
    (StoreCalled /\ LastTripOperation.kind = "UpdateTrip") =>
        /\ LastTripOperation.trip.id # None
        /\ \E i \in 1..Len(hs_last.db_before.trips) :
              hs_last.db_before.trips[i].id = LastTripOperation.trip.id

(***************************************************************************)
(* Properties of the environmental status handler                          *)
(***************************************************************************)
\* The last call of handle_environment_status, with the store connected.
EnvTick == eh_last.op = "handle" /\ eh_last.vessel_db

\* The metrics the last call handed to the store.
HandedToStore == {eh_last.handed[i] : i \in 1..Len(eh_last.handed)}

\* The metric's period had elapsed at the last call.
PeriodElapsed(m) ==
    eh_last.now - eh_last.state_before.timing[m] >= eh_last.state_before.config[m]

\* The metric's buffer held a sample at the last call.
HadSamples(m) == eh_last.em_before.samples[m] # <<>>

\* C16: in one call of the handler every metric that has samples and whose
\* period has elapsed is handed to the store, whether or not the write of
\* another metric failed in the same call and whatever the other periods.
C16_EveryDueMetricHandedToStore ==
    EnvTick => \A m \in MetricIds : (HadSamples(m) /\ PeriodElapsed(m)) => m \in HandedToStore

\* C17: for each metric handed to the store, a successful write sets its
\* last persist to the instant of the call and empties its buffer, a failed
\* write leaves both as they were; the last persist and the samples of every
\* other metric are as before the call.
C17_WriteTouchesItsMetricOnly ==
    eh_last.op = "handle" =>
        \A m \in MetricIds :
            IF m \in HandedToStore /\ m \notin eh_last.failing
            THEN /\ eh_last.state_after.timing[m] = eh_last.now
                 /\ eh_last.em_after.samples[m] = <<>>
            ELSE /\ eh_last.state_after.timing[m] = eh_last.state_before.timing[m]
                 /\ eh_last.em_after.samples[m] = eh_last.em_before.samples[m]

\* A call in which one write succeeded and a later one failed, while a third
\* metric held samples and was not due.
C17_Witness ==
    /\ EnvTick
    /\ \E m \in HandedToStore : m \notin eh_last.failing
    /\ \E m \in HandedToStore : m \in eh_last.failing
    /\ \E m \in MetricIds \ HandedToStore : HadSamples(m) /\ ~PeriodElapsed(m)

\* C18: a metric is handed to the store only if it has a sample and its
\* period has elapsed since its last successful persist; a metric that has
\* not been persisted since the construction is handed to the store by the
\* first call that finds samples of it.
C18_HandedOnlyWhenDue ==
    EnvTick =>
        /\ \A m \in HandedToStore : HadSamples(m) /\ PeriodElapsed(m)
        /\ \A m \in MetricIds \ eh_last.persisted_before : HadSamples(m) => m \in HandedToStore

(***************************************************************************)
(* Properties of the buffers of the vessel monitor                         *)
(***************************************************************************)
\* The last message the monitor took was of a kind that feeds a buffer.
Ingested == vm_last.op \in {"cog_sog", "position", "wind"}

\* The buffer of the monitor that the last message feeds, and the age its
\* samples are kept for.
BufferOf(vm) ==
    IF vm_last.op = "cog_sog" THEN vm.speeds
    ELSE IF vm_last.op = "position" THEN vm.positions
    ELSE vm.winds

RetainedFor ==
    IF vm_last.op = "cog_sog" THEN 15
    ELSE IF vm_last.op = "position" THEN 150
    ELSE 630

OrderedByTimestamp(samples) ==
    \A i, j \in 1..Len(samples) : i < j => samples[i].timestamp <= samples[j].timestamp

\* `a` is `b` without some of its first samples.
IsTailOf(a, b) == \E k \in 0..Len(b) : a = SubSeq(b, k + 1, Len(b))

\* `after` is `before` with samples evicted at the head and at most one
\* sample appended at the tail.
EvictedAndAppended(before, after) ==
    \/ IsTailOf(after, before)
    \/ after # <<>> /\ IsTailOf(SubSeq(after, 1, Len(after) - 1), before)

\* C21: the position, speed and wind buffers are ordered by nondecreasing
\* timestamp and change only by appending at the tail and evicting at the
\* head; after each ingest of the matching message no retained position is
\* older than 150 s, no speed sample older than 15 s and no wind sample older
\* than 630 s.
C21_BuffersOrderedAndBoundedInAge ==
    /\ OrderedByTimestamp(vessel_monitor.positions)
    /\ OrderedByTimestamp(vessel_monitor.speeds)
    /\ OrderedByTimestamp(vessel_monitor.winds)
    /\ Ingested =>
          /\ EvictedAndAppended(vm_last.before.positions, vessel_monitor.positions)
          /\ EvictedAndAppended(vm_last.before.speeds, vessel_monitor.speeds)
          /\ EvictedAndAppended(vm_last.before.winds, vessel_monitor.winds)
          /\ \A i \in 1..Len(BufferOf(vessel_monitor)) :
                vm_last.now - BufferOf(vessel_monitor)[i].timestamp <= RetainedFor

\* C22: a wind message adds a wind sample only if the newest stored speed
\* sample is at most 5 s old; with no speed sample, or with a newest one
\* older than 5 s, the wind buffer gains nothing.
C22_WindNeedsRecentSpeed ==
    (vm_last.op = "wind" /\ ~IsTailOf(vessel_monitor.winds, vm_last.before.winds)) =>
        /\ vm_last.before.speeds # <<>>
        /\ vm_last.now - vm_last.before.speeds[Len(vm_last.before.speeds)].timestamp <= 5

\* A wind sample is stored while the newest speed sample is exactly 5 s old.
C22_Witness ==
    /\ vm_last.op = "wind"
    /\ ~IsTailOf(vessel_monitor.winds, vm_last.before.winds)
    /\ vm_last.now - vm_last.before.speeds[Len(vm_last.before.speeds)].timestamp = 5

\* A wind message is dropped while the newest speed sample is 6 s old.
C22_WitnessOutdated ==
    /\ vm_last.op = "wind"
    /\ vm_last.before.speeds # <<>>
    /\ vm_last.now - vm_last.before.speeds[Len(vm_last.before.speeds)].timestamp = 6
    /\ vessel_monitor.winds = vm_last.before.winds

(***************************************************************************)
(* Properties of the time gate of the main loop                            *)
(***************************************************************************)
\* C23: in an iteration of the loop the message goes to the time monitor
\* first, and only if time is synchronised after that do the vessel and the
\* environmental monitor receive it and is a status generated: while time
\* is not synchronised no sample enters either monitor and generate_status
\* yields nothing.
C23_MonitorsFedOnlyWhenSynchronized ==
    (mn_last.op = "iteration" /\ ~mn_last.fed.synchronized_after) =>
        /\ mn_last.fed.samples_after = mn_last.fed.samples_before
        /\ ~mn_last.fed.status_generated

(***************************************************************************)
(* Properties of the cadence of the vessel status handler                  *)
(***************************************************************************)
\* The handler has just been given its first status since construction.
FirstStatusHandled == hs_last.op = "handle" /\ cadence.handled = 1

\* C24: the first status handled after the construction of the handler
\* passes the cadence gate, moored or underway, for every interval the
\* validated configuration can hold (the moored default of 1800 s included):
\* the handler goes on to the store with it.
C24_FirstStatusPassesGate ==
    FirstStatusHandled =>
        /\ hs_last.called # None
        /\ hs_last.result = Ok(TRUE)

\* The first status is a moored one under the default moored interval.
C24_Witness ==
    /\ FirstStatusHandled
    /\ hs_last.status.is_moored
    /\ status_handler.config.interval_moored = 1800
    /\ hs_last.result = Ok(TRUE)

\* The first status is an underway one under an underway interval of 600 s.
C24_WitnessUnderway ==
    /\ FirstStatusHandled
    /\ ~hs_last.status.is_moored
    /\ status_handler.config.interval_underway = 600
    /\ hs_last.result = Ok(TRUE)

\* Underway statuses arrive every 10 s under interval_underway 30 s and
\* interval_moored 600 s.
UnderwayEveryTenSeconds ==
    /\ cadence.kind = "underway"
    /\ status_handler.config.interval_underway = 30
    /\ status_handler.config.interval_moored = 600

GnssFrameFed ==
    /\ rd_last.op = "send"
    /\ Len(sender.payload) = 43
    /\ Identifier_pgn(rd_last.can_id) = 129029
    /\ Identifier_source(rd_last.can_id) = 22

\* C26 as amended: the frames of a 43-byte PGN 129029 message from source 22,
\* fed in order, yield exactly one N2kFrame, returned by the call that
\* processes the 7th frame, with pgn 129029, source 22, is_fast_packet true
\* and the 43 bytes of the message; the six earlier calls return None.
C26_GnssEmittedAtSeventhFrame ==
    GnssFrameFed =>
        /\ sender.sent <= 7
        /\ sender.sent < 7 => rd_last.ret = None
        /\ sender.sent = 7 =>
              /\ rd_last.ret # None
              /\ rd_last.ret.some.pgn = 129029
              /\ rd_last.ret.some.source = 22
              /\ rd_last.ret.some.is_fast_packet
              /\ rd_last.ret.some.data = sender.payload

\* The seventh frame has been fed and the record returned.
C26_Witness ==
    /\ GnssFrameFed
    /\ sender.sent = 7
    /\ rd_last.ret # None

\* C26 as stated: the one N2kFrame is returned by the call that processes
\* the 6th frame, and the five earlier calls return None.
C26_GnssEmittedAtSixthFrame ==
    GnssFrameFed =>
        /\ sender.sent < 6 => rd_last.ret = None
        /\ sender.sent = 6 =>
              /\ rd_last.ret # None
              /\ rd_last.ret.some.pgn = 129029
              /\ rd_last.ret.some.source = 22
              /\ rd_last.ret.some.is_fast_packet

(***************************************************************************)
(* Properties of the skew warning                                          *)
(***************************************************************************)
\* A System Time message has just been processed and left the monitor
\* Skewed.
LeftSkewed == tm_last.op = "system_time" /\ tm_last.now >= 0 /\ time_monitor.has_time_skew

\* C27: while the monitor stays Skewed across successive System Time
\* messages, the warning is printed on the first of them and then at most
\* once per 10 s: any two consecutive warnings are at least warning_cooldown
\* apart.
C27_WarningAtMostOncePerCooldown ==
    /\ (LeftSkewed /\ ~tm_last.before.has_time_skew) => tm_last.warned
    /\ (tm_last.op = "system_time" /\ tm_last.warned
            /\ tm_last.before.last_warning_time # None) =>
          tm_last.now - tm_last.before.last_warning_time.some >= warning_cooldown_secs * 1000

\* C28: if the wall clock reads before the Unix epoch when a System Time
\* message is processed, process_system_time changes nothing: the
\* initialised flag, the sync state, last_measured_skew_ms and the last
\* warning time keep their values, and no skew warning is printed.
C28_BeforeEpochChangesNothing ==
    (tm_last.op = "system_time" /\ tm_last.now < 0) =>
        /\ time_monitor.is_initialized = tm_last.before.is_initialized
        /\ time_monitor.has_time_skew = tm_last.before.has_time_skew
        /\ time_monitor.last_measured_skew_ms = tm_last.before.last_measured_skew_ms
        /\ time_monitor.last_warning_time = tm_last.before.last_warning_time
        /\ time_monitor = tm_last.before
        /\ ~tm_last.warned

\* A message that would have flipped a Synced, initialised monitor to Skewed
\* is processed while the wall clock reads before the epoch.
C28_Witness ==
    /\ tm_last.op = "system_time"
    /\ tm_last.now < 0
    /\ tm_last.before.is_initialized
    /\ ~tm_last.before.has_time_skew
    /\ Abs(tm_last.now - to_system_time(tm_last.msg)) > tm_last.before.time_skew_threshold_ms
    /\ ~time_monitor.has_time_skew

(***************************************************************************)
(* Properties of the read loop and of the reconnects                       *)
(***************************************************************************)
\* C29: a read that ends with WouldBlock or TimedOut counts as 'no frame':
\* the loop goes on reading from the same socket and does not reconnect;
\* any other read error makes the loop reopen the interface, retrying every
\* 10 s until the open succeeds, after which reading resumes.
C29_TimeoutIsNoFrameOtherErrorReopens ==
    /\ can.at \in {"read", "open"}
    /\ (can_last.op = "read" /\ can_last.outcome \in {"WouldBlock", "TimedOut"}) =>
          /\ can.at = "read"
          /\ can.socket = can_last.before.socket
    /\ (can_last.op = "read" /\ can_last.outcome = "Other") => can.at = "open"
    /\ (can_last.op = "open" /\ can_last.outcome = "Err") =>
          /\ can.at = "open"
          /\ can_last.slept = 10
    /\ (can_last.op = "open" /\ can_last.outcome = "Ok") =>
          /\ can.at = "read"
          /\ can.socket # can_last.before.socket

\* The attempts of the call that failed.
FailedAttempts == {k \in 1..Len(reconnect.outcomes) : ~reconnect.outcomes[k]}

\* C30: reconnect_with_retry(url, 3) makes at most 3 attempts, returns the
\* connection at the first success and None after the third failure; after
\* the k-th failed attempt with k < 3 it waits min(2^(k-1), 30) seconds and
\* it does not wait after the last one.
C30_ThreeAttemptsWithBackoff ==
    reconnect.max_retries = 3 =>
        /\ reconnect.attempt <= 3
        /\ Len(reconnect.outcomes) = reconnect.attempt
        /\ \A k \in 1..(reconnect.attempt - 1) : ~reconnect.outcomes[k]
        /\ reconnect.active <=> (reconnect.attempt < 3 /\ FailedAttempts = 1..reconnect.attempt)
        /\ reconnect.result # None <=>
              (reconnect.attempt > 0 /\ reconnect.outcomes[reconnect.attempt])
        /\ Len(reconnect.waits) = Cardinality(FailedAttempts \ {3})
        /\ \A k \in 1..Len(reconnect.waits) :
              reconnect.waits[k] = (IF 2 ^ (k - 1) < 30 THEN 2 ^ (k - 1) ELSE 30)

\* The third attempt failed: the call returned None after waits of 1 s and 2 s.
C30_Witness ==
    /\ reconnect.max_retries = 3
    /\ reconnect.attempt = 3
    /\ ~reconnect.outcomes[3]
    /\ ~reconnect.active
    /\ reconnect.result = None
    /\ reconnect.waits = <<1, 2>>

\* The second attempt succeeded after one wait of 1 s.
C30_WitnessConnected ==
    /\ reconnect.max_retries = 3
    /\ reconnect.attempt = 2
    /\ reconnect.result # None
    /\ reconnect.waits = <<1>>

(***************************************************************************)
(* Properties of the health checker                                        *)
(***************************************************************************)
\* A health-check tick: check_and_reconnect was called with the interval
\* elapsed.
HealthTick == hc_last.op = "check" /\ hc_last.due

\* C31: whenever the store connection is lost or absent, the health checker
\* attempts a reconnect on every later health-check tick, so that once the
\* store is reachable again the loop holds a working connection; this goes
\* on after a reconnect round that failed 3 times and when no connection
\* was established at startup.
C31_ReconnectAttemptedOnEveryTick ==
    /\ (HealthTick /\ hc_last.db_before = None) => hc_last.attempts > 0
    /\ (HealthTick /\ hc_last.db_before # None /\ ~hc_last.reachable) =>
          hc_last.attempts > 0
    /\ (HealthTick /\ hc_last.reachable) => hc_last.db_after # None

(***************************************************************************)
(* Properties of the source filter                                         *)
(***************************************************************************)
\* C32: should_accept(pgn, source) is true exactly when the PGN has no
\* entry in pgn_source_map or its entry equals the source.
C32_AcceptIffNoEntryOrSameSource ==
    flt_last.op = "query" =>
        (flt_last.accepted <=>
            \/ flt_last.pgn \notin DOMAIN source_filter
            \/ source_filter[flt_last.pgn] = flt_last.source)

\* A PGN with an entry is asked about with another source and rejected.
C32_Witness ==
    /\ flt_last.op = "query"
    /\ flt_last.pgn \in DOMAIN source_filter
    /\ source_filter[flt_last.pgn] # flt_last.source
    /\ ~flt_last.accepted

\* A PGN without an entry is accepted while the map has entries.
C32_WitnessNoEntry ==
    /\ flt_last.op = "query"
    /\ DOMAIN source_filter # {}
    /\ flt_last.pgn \notin DOMAIN source_filter
    /\ flt_last.accepted

\* The filter rejects the source of the last frame.
FrameFromRejectedSource ==
    /\ flt_last.op = "frame"
    /\ flt_last.pgn \in DOMAIN source_filter
    /\ source_filter[flt_last.pgn] # flt_last.source

\* C33: the (PGN, source) filter is applied to each CAN frame right after
\* identifier decoding and before reassembly: a frame from a source the
\* filter rejects never creates or extends a fast-packet buffer and is
\* never decoded.
C33_RejectedFrameNeverReassembled ==
    FrameFromRejectedSource =>
        /\ flt_last.bufs_after = flt_last.bufs_before
        /\ ~flt_last.decoded

(***************************************************************************)
(* Properties of the validated configuration                               *)
(***************************************************************************)
InRange(seconds) == 30 <= seconds /\ seconds <= 600

\* C34: after Config validation both vessel-status intervals and all seven
\* environmental periods lie in [30, 600] s, whatever values the
\* configuration file held.
C34_ValidatedIntervalsInRange ==
    cfg_last.op = "validated" =>
        /\ InRange(loaded_config.vessel_status.interval_moored)
        /\ InRange(loaded_config.vessel_status.interval_underway)
        /\ \A m \in MetricIds : InRange(loaded_config.environmental[m])

(***************************************************************************)
(* Properties of a failed store call of the vessel-status handler          *)
(***************************************************************************)
\* The store call of the last handle_vessel_status failed.
StoreCallFailed == hs_last.op = "handle" /\ hs_last.result = Err

\* C35: if the store call of handle_vessel_status fails, the handler's state
\* is as before the call: the last persist time, the last persisted status
\* and current_trip (existence, id, end_timestamp, accumulated distance and
\* time) are unchanged.
C35_FailedStoreCallLeavesStateUnchanged ==
    StoreCallFailed =>
        /\ status_handler.last_db_persist_time = hs_last.state_before.last_db_persist_time
        /\ status_handler.last_vessel_status = hs_last.state_before.last_vessel_status
        /\ status_handler.current_trip = hs_last.state_before.current_trip

(***************************************************************************)
(* Properties of reassembly under loss, duplication and reordering         *)
(***************************************************************************)
\* The payload bytes of a frame all come from one sequence: every frame of
\* one sequence on the bus carries that sequence's fill byte.
BytesOfOneSequence(data) ==
    \E f \in Fills : \A i \in DOMAIN data : data[i] = f

\* C36: under arbitrary loss, duplication or reordering of CAN frames, every
\* emitted fast-packet N2kFrame contains payload bytes of a single sequence
\* only, never bytes of two different sequences of the same (pgn, source).
C36_EmittedFrameOfSingleSequence ==
    (rd_last.op = "feed" /\ rd_last.ret # None /\ rd_last.ret.some.is_fast_packet) =>
        BytesOfOneSequence(rd_last.ret.some.data)

(***************************************************************************)
(* Properties of the maximum speed of a persisted row                      *)
(***************************************************************************)
\* The last status handed to the handler was written to the store.
StatusPersisted == hs_last.op = "handle" /\ hs_last.result = Ok(TRUE)

StatusWritten == main.state.last_vessel_status # None

\* C38: every VesselStatus written to the store satisfies
\* number_of_samples > 0.
C38_WrittenStatusHasSamples ==
    StatusWritten => main.state.last_vessel_status.some.number_of_samples > 0

(***************************************************************************)
(* Properties of the position filter after a pause                         *)
(***************************************************************************)
\* A position message is processed while the newest accepted position is
\* more than POSITION_VALIDATION_WINDOW old.
NoneAcceptedForTenSeconds ==
    /\ vm_last.op = "position"
    /\ vm_last.before.positions # <<>>
    /\ vm_last.before.positions[Len(vm_last.before.positions)].timestamp
          + POSITION_VALIDATION_WINDOW < vm_last.now

\* The position of the last message is the newest sample of the buffer.
LastPositionAccepted ==
    /\ vessel_monitor.positions # <<>>
    /\ vessel_monitor.positions[Len(vessel_monitor.positions)] =
          [position |-> vm_last.msg, timestamp |-> vm_last.now]

\* C39: the position filter cannot lock the vessel out for ever: if no
\* position has been accepted for more than 10 s, the next position that
\* arrives is accepted.
C39_AcceptedAfterTenSecondsWithout ==
    NoneAcceptedForTenSeconds => LastPositionAccepted

\* Ten positions were accepted at one place; a position 110 m away, which
\* the filter rejected while they were recent, is accepted after the pause.
C39_Witness ==
    /\ NoneAcceptedForTenSeconds
    /\ Len(vm_last.before.positions) >= MIN_SAMPLES_FOR_VALIDATION
    /\ ~is_valid_position(vm_last.before,
                          vm_last.before.positions[Len(vm_last.before.positions)].timestamp,
                          vm_last.msg)
    /\ LastPositionAccepted

(***************************************************************************)
(* Properties of the environmental monitor's buffers                       *)
(***************************************************************************)
\* The last message put a sample into a buffer of the monitor.
SampleIngested == em_last.op = "ingest" /\ EnvBuffersOf(em_last.message) # {}

\* Every sample of the metric's buffer is at most SAMPLE_INTERVAL + 10 s old.
BufferWithinAge(em, metric, t) ==
    \A i \in 1..Len(em.samples[metric]) :
        em.samples[metric][i].timestamp + SAMPLE_INTERVAL + 10 >= t

\* C40: after any ingest into EnvironmentalMonitor, each of the seven metric
\* buffers (roll included) holds only samples not older than 70 s
\* (SAMPLE_INTERVAL + 10 s).
C40_BuffersHoldOnlyRecentSamples ==
    SampleIngested =>
        \A m \in MetricIds : BufferWithinAge(em_last.after, m, em_last.now)

====
